---- MODULE Spec2Model ----
(***************************************************************************)
(* Model of the Game-of-Life "Garden of Eden" benchmark                    *)
(* (src/src/game-of-life.cpp) together with the build-node interface of    *)
(* the BuDDy adapter (src/unnamed/part_001).                               *)
(*                                                                         *)
(* A decision diagram is modelled as the reduced ordered diagram itself,   *)
(* so that handle equality in the adapter is equality of the model values. *)
(***************************************************************************)
EXTENDS Integers, Sequences, FiniteSets, TLC

VARIABLES
    input_sizes,   \* <<rows, cols>> of the interior (post) grid
    option,        \* the symmetry option of the run
    should_exit,   \* the flag parse_input returns
    pc,            \* position inside run_gameoflife, or the phase of a unit spec
    vm,            \* the var_map (NoMap before its construction)
    adapter,       \* the adapter (NoAdapter before its construction)
    res,           \* run_gameoflife: the relation accumulated by garden_of_eden
    solutions,     \* run_gameoflife: the number it reports
    status,        \* run_gameoflife: its return value, once pc = "returned"
    call,          \* the last operation called on the map or the builders
    ret,           \* and what it returned; in run_gameoflife, the relation
                   \* garden_of_eden has accumulated before its last exists()
    ndebug,        \* whether the build defines NDEBUG, which compiles assert() out
    N              \* the global N: the number of crosses of Tic-Tac-Toe

vars == <<input_sizes, option, should_exit, pc, vm, adapter, res, solutions,
          status, call, ret, ndebug, N>>

(***************************************************************************)
(* Bounds of the model.                                                    *)
(***************************************************************************)
\* largest interior grid whose var_map is constructed
MaxRows == 3
MaxCols == 3
\* largest number of interior cells for which run_gameoflife is followed
\* through garden_of_eden
MaxCells == 4
\* largest count asked of construct_count
MaxAlive == 10
\* largest number of crosses N given to Tic-Tac-Toe
MaxN == 66
\* largest label of the lines of four variables built besides those of the cube
MaxLabel == 4
\* largest memory budget in bytes drawn byte by byte, and largest in MiB
MaxBytes == 5000
MaxMiB == 4

(***************************************************************************)
(* Priming, geometry (game-of-life.cpp 13-39).                             *)
(***************************************************************************)
pre  == FALSE
post == TRUE

B2I(b) == IF b THEN 1 ELSE 0

rows(sizes, p) == sizes[1] + 2 * B2I(~p)
MIN_ROW(p) == B2I(p)
MAX_ROW(sizes, p) == rows(sizes, p) - B2I(~p)
cols(sizes, p) == sizes[2] + 2 * B2I(~p)
MIN_COL(p) == B2I(p)
MAX_COL(sizes, p) == cols(sizes, p) - B2I(~p)

(***************************************************************************)
(* Cells (game-of-life.cpp 93-245).                                        *)
(***************************************************************************)
Cell(r, c, p) == [row |-> r, col |-> c, prime |-> p]

\* cell::cell(): the illegal default cell
DefaultCell == Cell(-1, -1, pre)

\* cell::cell(const cell&, bool): copies the coordinate, no range check
Reprime(c, p) == Cell(c.row, c.col, p)

out_of_range(sizes, c) ==
    \/ c.row < MIN_ROW(c.prime)
    \/ MAX_ROW(sizes, c.prime) < c.row
    \/ c.col < MIN_COL(c.prime)
    \/ MAX_COL(sizes, c.prime) < c.col

Abs(n) == IF n < 0 THEN -n ELSE n

\* evaluates first, then second, and yields second: the statements of the
\* source run in this order
Then(first, second) == <<first, second>>[2]

in_neighbourhood(c, o) ==
    /\ Abs(c.row - o.row) <= 1
    /\ Abs(c.col - o.col) <= 1

\* cell::operator== compares the coordinate only, not the primality
CellEq(a, b) == a.row = b.row /\ a.col = b.col

RECURSIVE Xor(_, _)
Xor(a, b) ==
    IF a = 0 THEN b
    ELSE IF b = 0 THEN a
    ELSE ((a + b) % 2) + 2 * Xor(a \div 2, b \div 2)

\* std::hash<cell>: hash(row) ^ hash(col) ^ prime, for the cells a map holds
\* (their coordinates are not negative)
CellHash(c) == Xor(Xor(c.row, c.col), B2I(c.prime))

(***************************************************************************)
(* std::unordered_map<cell,int>: the entries in insertion order.  A key is *)
(* found when an entry has the same hash code and compares equal.          *)
(***************************************************************************)
\* a lookup that compares with operator== alone, whatever the hash codes
SameCoordinate(a, b) == CellEq(a, b)

SameKey(a, b) == CellHash(a) = CellHash(b) /\ CellEq(a, b)

MapHas(m, c) == \E i \in 1..Len(m) : SameKey(m[i].key, c)

MapFind(m, c) == m[CHOOSE i \in 1..Len(m) : SameKey(m[i].key, c)].val

\* insert() leaves the map alone when the key is already present
MapInsert(m, c, x) ==
    IF MapHas(m, c) THEN m ELSE Append(m, [key |-> c, val |-> x])

(***************************************************************************)
(* Symmetry option (game-of-life.cpp 45-85).                               *)
(***************************************************************************)
Symmetries == {"none", "mirror"}

RECURSIVE ascii_tolower(_)
ascii_tolower(s) ==
    IF s = <<>> THEN <<>>
    ELSE LET ch == Head(s)
             lo == CASE ch = "N" -> "n" [] ch = "O" -> "o" [] ch = "E" -> "e"
                     [] ch = "M" -> "m" [] ch = "I" -> "i" [] ch = "R" -> "r"
                     [] ch = "X" -> "x" [] OTHER -> ch
         IN  <<lo>> \o ascii_tolower(Tail(s))

\* parse_option that falls back to symmetry::none without setting should_exit
parse_option_silent(arg, exit_in) ==
    LET lower_arg == ascii_tolower(arg)
    IN  IF lower_arg = <<"m", "i", "r", "r", "o", "r">>
        THEN [value |-> "mirror", should_exit |-> exit_in]
        ELSE [value |-> "none", should_exit |-> exit_in]

\* parse_option<symmetry>: the value it returns and the should_exit it leaves
parse_option(arg, exit_in) ==
    LET lower_arg == ascii_tolower(arg)
    IN  IF lower_arg = <<"n", "o", "n", "e">>
        THEN [value |-> "none", should_exit |-> exit_in]
        ELSE IF lower_arg = <<"m", "i", "r", "r", "o", "r">>
        THEN [value |-> "mirror", should_exit |-> exit_in]
        ELSE [value |-> "none", should_exit |-> TRUE]

(***************************************************************************)
(* var_map (game-of-life.cpp 251-431).                                     *)
(***************************************************************************)
\* the state of the constructor's loops: the map, the next index x, the two
\* counters, and the (cell, index) pairs handed to insert(), in order
CtorStart ==
    [map |-> <<>>, x |-> 0, vcpre |-> 0, vcpost |-> 0, assigned |-> <<>>]

CtorInsert(st, c, x) ==
    [st EXCEPT !.map = MapInsert(st.map, c, x),
               !.assigned = Append(st.assigned, [key |-> c, val |-> x])]

\* the body of case symmetry::none with the post cell numbered first
NoneBodyPostFirst(sizes, st, row, col) ==
    LET cell_pre  == Cell(row, col, pre)
        cell_post == Reprime(cell_pre, post)
        s1        == IF ~out_of_range(sizes, cell_post)
                     THEN [CtorInsert(st, cell_post, st.x)
                             EXCEPT !.x = st.x + 1, !.vcpost = st.vcpost + 1]
                     ELSE st
    IN  [CtorInsert(s1, cell_pre, s1.x)
           EXCEPT !.x = s1.x + 1, !.vcpre = s1.vcpre + 1]

\* body of the inner loop of case symmetry::none (lines 273-283)
NoneBody(sizes, st, row, col) ==
    LET cell_pre  == Cell(row, col, pre)
        s1        == [CtorInsert(st, cell_pre, st.x)
                        EXCEPT !.x = st.x + 1, !.vcpre = st.vcpre + 1]
        cell_post == Reprime(cell_pre, post)
    IN  IF ~out_of_range(sizes, cell_post)
        THEN [CtorInsert(s1, cell_post, s1.x)
                EXCEPT !.x = s1.x + 1, !.vcpost = s1.vcpost + 1]
        ELSE s1

\* the body of case symmetry::mirror with the mirrored pre cell merged into
\* the index of the left one
MirrorBodyMergedPre(sizes, st, row, left_col, max_col) ==
    LET right_col  == MAX_COL(sizes, pre) - left_col
        add_mirror == max_col < right_col
        pre_left   == Cell(row, left_col, pre)
        s1 == IF add_mirror
              THEN CtorInsert(st, Cell(row, right_col, pre), st.x)
              ELSE st
        s2 == [CtorInsert(s1, pre_left, s1.x)
                 EXCEPT !.x = s1.x + 1, !.vcpre = s1.vcpre + 1]
        post_left == Reprime(pre_left, post)
        post_var  == s2.x
        s3 == [CtorInsert(s2, post_left, post_var)
                 EXCEPT !.x = s2.x + 1, !.vcpost = s2.vcpost + 1]
    IN  IF ~out_of_range(sizes, post_left)
        THEN IF add_mirror
             THEN CtorInsert(s3, Cell(row, right_col, post), post_var)
             ELSE s3
        ELSE s2

\* the body of case symmetry::mirror with an index of its own for the
\* mirrored post cell
MirrorBodyUnshared(sizes, st, row, left_col, max_col) ==
    LET right_col  == MAX_COL(sizes, pre) - left_col
        add_mirror == max_col < right_col
        pre_left   == Cell(row, left_col, pre)
        s1 == [CtorInsert(st, pre_left, st.x)
                 EXCEPT !.x = st.x + 1, !.vcpre = st.vcpre + 1]
        s2 == IF add_mirror
              THEN [CtorInsert(s1, Cell(row, right_col, pre), s1.x)
                      EXCEPT !.x = s1.x + 1, !.vcpre = s1.vcpre + 1]
              ELSE s1
        post_left == Reprime(pre_left, post)
        s3 == [CtorInsert(s2, post_left, s2.x)
                 EXCEPT !.x = s2.x + 1, !.vcpost = s2.vcpost + 1]
    IN  IF ~out_of_range(sizes, post_left)
        THEN IF add_mirror
             THEN [CtorInsert(s3, Cell(row, right_col, post), s3.x)
                     EXCEPT !.x = s3.x + 1, !.vcpost = s3.vcpost + 1]
             ELSE s3
        ELSE s2

\* the body of case symmetry::mirror without the entry of the mirrored post
\* cell
MirrorBodyLeftOnly(sizes, st, row, left_col, max_col) ==
    LET right_col  == MAX_COL(sizes, pre) - left_col
        add_mirror == max_col < right_col
        pre_left   == Cell(row, left_col, pre)
        s1 == [CtorInsert(st, pre_left, st.x)
                 EXCEPT !.x = st.x + 1, !.vcpre = st.vcpre + 1]
        s2 == IF add_mirror
              THEN [CtorInsert(s1, Cell(row, right_col, pre), s1.x)
                      EXCEPT !.x = s1.x + 1, !.vcpre = s1.vcpre + 1]
              ELSE s1
        post_left == Reprime(pre_left, post)
    IN  IF ~out_of_range(sizes, post_left)
        THEN [CtorInsert(s2, post_left, s2.x)
                EXCEPT !.x = s2.x + 1, !.vcpost = s2.vcpost + 1]
        ELSE s2

\* body of the inner loop of case symmetry::mirror (lines 294-324)
MirrorBody(sizes, st, row, left_col, max_col) ==
    LET right_col  == MAX_COL(sizes, pre) - left_col
        add_mirror == max_col < right_col
        pre_left   == Cell(row, left_col, pre)
        s1 == [CtorInsert(st, pre_left, st.x)
                 EXCEPT !.x = st.x + 1, !.vcpre = st.vcpre + 1]
        s2 == IF add_mirror
              THEN [CtorInsert(s1, Cell(row, right_col, pre), s1.x)
                      EXCEPT !.x = s1.x + 1, !.vcpre = s1.vcpre + 1]
              ELSE s1
        post_left == Reprime(pre_left, post)
        post_var  == s2.x
        s3 == [CtorInsert(s2, post_left, post_var)
                 EXCEPT !.x = s2.x + 1, !.vcpost = s2.vcpost + 1]
    IN  IF ~out_of_range(sizes, post_left)
        THEN IF add_mirror
             THEN CtorInsert(s3, Cell(row, right_col, post), post_var)
             ELSE s3
        ELSE s2

\* the two nested loops: rows MIN_ROW..MAX_ROW, columns MIN_COL..last_col
RECURSIVE CtorLoop(_, _, _, _, _, _)
CtorLoop(sizes, s, st, row, col, last_col) ==
    IF row > MAX_ROW(sizes, pre) THEN st
    ELSE IF col > last_col
    THEN CtorLoop(sizes, s, st, row + 1, MIN_COL(pre), last_col)
    ELSE LET body == IF s = "none" THEN NoneBody(sizes, st, row, col)
                     ELSE MirrorBody(sizes, st, row, col, last_col)
         IN  Then(body, CtorLoop(sizes, s, body, row, col + 1, last_col))

MirrorMaxCol(sizes) ==
    LET odd_cols == cols(sizes, pre) % 2
    IN  MIN_COL(pre) + (cols(sizes, pre) \div 2) - B2I(odd_cols = 0)

CtorMap(sizes, s) ==
    CtorLoop(sizes, s, CtorStart, MIN_ROW(pre), MIN_COL(pre),
             IF s = "none" THEN MAX_COL(sizes, pre) ELSE MirrorMaxCol(sizes))

\* the keys of the map that carry index x
KeysOf(m, x) == {m[i].key : i \in {j \in 1..Len(m) : m[j].val = x}}

\* Inverse mapping (lines 335-338): _inv is resized to varcount() default
\* cells and every entry of the map overwrites slot kv.second, in the
\* iteration order of the hash map, which is unspecified: a slot several keys
\* map to ends up with any one of them.  Slot x is element x+1.
RECURSIVE InvChoices(_, _)
InvChoices(m, n) ==
    IF n = 0 THEN {<<>>}
    ELSE LET ks == KeysOf(m, n - 1)
             cs == IF ks = {} THEN {DefaultCell} ELSE ks
         IN  {Append(s, c) : s \in InvChoices(m, n - 1), c \in cs}

\* the maps var_map::var_map(s) can construct
var_maps(sizes, s) ==
    LET st == CtorMap(sizes, s)
    IN  {[map |-> st.map,
          varcount |-> [p \in BOOLEAN |-> IF p THEN st.vcpost ELSE st.vcpre],
          inv |-> inv,
          assigned |-> st.assigned] : inv \in InvChoices(st.map, st.vcpre + st.vcpost)}

NoMap == [map |-> <<>>, varcount |-> [p \in BOOLEAN |-> 0], inv |-> <<>>,
          assigned |-> <<>>]

varcount(m) == m.varcount[pre] + m.varcount[post]

\* what a call yields: the value it returns, or the exception it throws
Value(v) == [thrown |-> FALSE, val |-> v]
Throw(e) == [thrown |-> TRUE, what |-> e]

OutOfRange == "std::out_of_range"

var_from_cell(sizes, m, c) ==
    IF out_of_range(sizes, c) THEN Throw(OutOfRange)
    ELSE IF ~MapHas(m.map, c) THEN Throw(OutOfRange)
    ELSE Value(MapFind(m.map, c))

\* operator[](const cell&), where the callers let no exception pass
VarOf(sizes, m, c) == var_from_cell(sizes, m, c).val

\* cell_from_var(x) that reads the slot before x
cell_from_var_before(m, x) ==
    IF 0 <= x /\ x < Len(m.inv) THEN Value(m.inv[IF x = 0 THEN 1 ELSE x])
    ELSE Throw(OutOfRange)

\* cell_from_var(x): _inv.at(x)
cell_from_var(m, x) ==
    IF 0 <= x /\ x < Len(m.inv) THEN Value(m.inv[x + 1]) ELSE Throw(OutOfRange)

\* operator[](const int&), where the callers stay below varcount()
CellOf(m, x) == cell_from_var(m, x).val

\* cell_from_var(x, c) that never hands the candidate back
cell_from_var_cand_ignored(sizes, m, x, c) ==
    IF var_from_cell(sizes, m, c).thrown THEN var_from_cell(sizes, m, c)
    ELSE cell_from_var(m, x)

\* cell_from_var(x, c) with c as a candidate
cell_from_var_cand(sizes, m, x, c) ==
    LET c_x == var_from_cell(sizes, m, c)
    IN  IF c_x.thrown THEN c_x
        ELSE IF c_x.val = x THEN Value(c)
        ELSE cell_from_var(m, x)

(***************************************************************************)
(* Reduced ordered decision diagrams.  A diagram is a terminal <<0>> or    *)
(* <<1>>, or a node <<x, low, high>> whose children only test variables    *)
(* larger than x and differ from one another.  Two diagrams denote the     *)
(* same function iff they are equal, as in the unique table of BuDDy.     *)
(***************************************************************************)
bddfalse == <<0>>
bddtrue  == <<1>>

IsLeaf(f) == Len(f) = 1

\* the unique table's node: a node whose children agree is that child
MkNode(x, low, high) == IF low = high THEN low ELSE <<x, low, high>>

Min3(a, b, c) ==
    IF a <= b /\ a <= c THEN a ELSE IF b <= c THEN b ELSE c

\* the topmost variable of f, g and h, where f is a node
TopVar(f, g, h) ==
    Min3(f[1], IF IsLeaf(g) THEN f[1] ELSE g[1], IF IsLeaf(h) THEN f[1] ELSE h[1])

\* f with variable x, not below the root of f, fixed to 0 (low) or 1 (high)
LowAt(f, x)  == IF ~IsLeaf(f) /\ f[1] = x THEN f[2] ELSE f
HighAt(f, x) == IF ~IsLeaf(f) /\ f[1] = x THEN f[3] ELSE f

RECURSIVE bdd_ite(_, _, _)
bdd_ite(f, g, h) ==
    CASE f = bddtrue  -> g
      [] f = bddfalse -> h
      [] f \notin {bddtrue, bddfalse} /\ g = h -> g
      [] f \notin {bddtrue, bddfalse} /\ g = bddtrue /\ h = bddfalse -> f
      [] OTHER ->
           LET x == TopVar(f, g, h)
           IN  MkNode(x, bdd_ite(LowAt(f, x), LowAt(g, x), LowAt(h, x)),
                         bdd_ite(HighAt(f, x), HighAt(g, x), HighAt(h, x)))

bdd_ithvar(i)  == <<i, bddfalse, bddtrue>>
bdd_nithvar(i) == <<i, bddtrue, bddfalse>>

bdd_not(f)    == bdd_ite(f, bddfalse, bddtrue)
bdd_and(f, g) == bdd_ite(f, g, bddfalse)
bdd_or(f, g)  == bdd_ite(f, bddtrue, g)
bdd_imp(f, g) == bdd_ite(f, g, bddtrue)

\* bdd_exist(f, cube of xs)
RECURSIVE bdd_exist(_, _)
bdd_exist(f, xs) ==
    IF IsLeaf(f) THEN f
    ELSE LET low  == bdd_exist(f[2], xs)
             high == bdd_exist(f[3], xs)
         IN  IF f[1] \in xs THEN bdd_or(low, high) ELSE MkNode(f[1], low, high)

\* the value of the diagram under the assignment that makes exactly the
\* variables of the set a true
RECURSIVE Eval(_, _)
Eval(f, a) ==
    IF IsLeaf(f) THEN f = bddtrue
    ELSE IF f[1] \in a THEN Eval(f[3], a) ELSE Eval(f[2], a)

\* the variables a diagram tests
RECURSIVE Support(_)
Support(f) ==
    IF IsLeaf(f) THEN {} ELSE {f[1]} \cup Support(f[2]) \cup Support(f[3])

RECURSIVE Pow2(_)
Pow2(n) == IF n <= 0 THEN 1 ELSE 2 * Pow2(n - 1)

\* bdd_satcount over the variables from..n-1
RECURSIVE SatCountFrom(_, _, _)
SatCountFrom(f, from, n) ==
    IF IsLeaf(f) THEN f[1] * Pow2(n - from)
    ELSE Pow2(f[1] - from)
           * (SatCountFrom(f[2], f[1] + 1, n) + SatCountFrom(f[3], f[1] + 1, n))

bdd_satcount(f, n) == SatCountFrom(f, 0, n)

(***************************************************************************)
(* The adapter (part_001, buddy_bdd_adapter): its variable count and the   *)
(* builder reference _latest_build.                                        *)
(***************************************************************************)
NoAdapter == [varcount |-> -1, latest_build |-> bddfalse]

\* buddy_bdd_adapter(varcount): _latest_build = bot()
adapter_new(n) == [varcount |-> n, latest_build |-> bddfalse]

top == bddtrue
bot == bddfalse

ithvar(i)  == bdd_ithvar(i)
nithvar(i) == bdd_nithvar(i)

apply_and(f, g) == bdd_and(f, g)
apply_or(f, g)  == bdd_or(f, g)
apply_imp(f, g) == bdd_imp(f, g)

\* exists(f, pred): pred as the set of the variables it selects
exists(f, xs) == bdd_exist(f, xs)

\* satcount(f, vc) = bdd_satcount(f) / 2^(varcount - vc), cut to an integer
satcount(ad, f, vc) == bdd_satcount(f, ad.varcount) \div Pow2(ad.varcount - vc)

\* the adapter with r as its latest build, and r
Built(ad, r) == [ad |-> [ad EXCEPT !.latest_build = r], dd |-> r]

\* build_node(bool): a terminal; it becomes the latest build only while the
\* latest build is the false terminal.  Result: the adapter and the node.
build_node_bool(ad, value) ==
    IF ad.latest_build = bot
    THEN Built(ad, IF value THEN top ELSE bot)
    ELSE [ad |-> ad, dd |-> IF value THEN top ELSE bot]

\* build_node(label, low, high): ite(ithvar(label), high, low), remembered
build_node(ad, label, low, high) ==
    Built(ad, bdd_ite(bdd_ithvar(label), high, low))

\* build() that keeps the reference
build_kept(ad) == [ad |-> ad, dd |-> ad.latest_build]

\* build(): hands out the latest build and resets the reference
build(ad) ==
    [ad |-> [ad EXCEPT !.latest_build = bot], dd |-> ad.latest_build]

(***************************************************************************)
(* Transition relation (game-of-life.cpp 444-588).                         *)
(***************************************************************************)
\* cell::neighbourhood(): the nine cells around c, in row-major order; the
\* centre is c itself
neighbourhood(c) ==
    << Cell(c.row - 1, c.col - 1, pre), Cell(c.row - 1, c.col, pre),
       Cell(c.row - 1, c.col + 1, pre), Cell(c.row, c.col - 1, pre),
       c,                               Cell(c.row, c.col + 1, pre),
       Cell(c.row + 1, c.col - 1, pre), Cell(c.row + 1, c.col, pre),
       Cell(c.row + 1, c.col + 1, pre) >>

Max(a, b) == IF a < b THEN b ELSE a

\* The loops over curr_idx (lines 485-492 with incr, 495-501 without).  The
\* index ascends and slot curr_idx + 1 is read before it is written, so every
\* slot of the window is rebuilt from the slots as they were before the loop.
\* Slot i of init_parts is element i + 1 of parts.
CountSlots(ad, parts, x, alive_min, alive_max, incr) ==
    SubSeq([j \in 1..Len(parts) |->
              IF alive_min <= j - 1 /\ j - 1 <= alive_max
              THEN build_node(ad, x, parts[j],
                     IF incr THEN parts[j + 1] ELSE parts[j]).dd
              ELSE parts[j]],
           1, Len(parts))

\* the state after the loops over curr_idx: the last node built is the one
\* of slot alive_max
CountBuilt(ad, nparts, remaining_cells, alive_min, alive_max) ==
    [ad    |-> IF alive_min <= alive_max
               THEN [ad EXCEPT !.latest_build = nparts[alive_max + 1]] ELSE ad,
     parts |-> nparts, remaining_cells |-> remaining_cells,
     alive_min |-> alive_min, alive_max |-> alive_max]

\* alive_max after a neighbourhood variable (lines 478-480)
NextAliveMax(remaining_cells, alive_max) ==
    IF 0 < remaining_cells /\ remaining_cells = alive_max
    THEN alive_max - 1 ELSE alive_max

\* the body of the loop over x (lines 467-502)
CountLevel(m, c, st, x) ==
    LET curr_cell == CellOf(m, x)
        isnb == curr_cell.prime = pre /\ in_neighbourhood(c, curr_cell)
        rem  == IF isnb THEN st.remaining_cells - 1 ELSE st.remaining_cells
        amin == IF isnb THEN Max(st.alive_min - 1, 0) ELSE st.alive_min
        amax == IF isnb THEN NextAliveMax(rem, st.alive_max) ELSE st.alive_max
    IN  CountBuilt(st.ad, CountSlots(st.ad, st.parts, x, amin, amax, isnb),
                   rem, amin, amax)

\* the loop over x (lines 466-503)
RECURSIVE CountLevels(_, _, _, _)
CountLevels(m, c, st, x) ==
    Then(st,
         IF x < 0 THEN st
         ELSE CountLevels(m, c, CountLevel(m, c, st, x), x - 1))

\* construct_count without the early return of lines 459-461
construct_count_unguarded(ad, m, c, alive) ==
    LET b0    == build_node_bool(ad, FALSE)
        b1    == build_node_bool(b0.ad, TRUE)
        parts == SubSeq([j \in 1..(alive + 2) |->
                           IF j - 1 = alive THEN b1.dd ELSE b0.dd], 1, alive + 2)
    IN  build(CountLevels(m, c,
                [ad |-> b1.ad, parts |-> parts,
                 remaining_cells |-> Len(neighbourhood(c)),
                 alive_min |-> alive, alive_max |-> alive],
                varcount(m) - 1).ad)

\* construct_count with init_parts true from slot alive on
construct_count_from(ad, m, c, alive) ==
    LET b0    == build_node_bool(ad, FALSE)
        b1    == build_node_bool(b0.ad, TRUE)
        parts == SubSeq([j \in 1..(alive + 2) |->
                           IF j - 1 >= alive THEN b1.dd ELSE b0.dd], 1, alive + 2)
        remaining_cells == Len(neighbourhood(c))
    IN  IF alive > remaining_cells
        THEN [ad |-> b1.ad, dd |-> bot]
        ELSE build(CountLevels(m, c,
                     [ad |-> b1.ad, parts |-> parts,
                      remaining_cells |-> remaining_cells,
                      alive_min |-> alive, alive_max |-> alive],
                     varcount(m) - 1).ad)

\* construct_count(adapter, vm, c, alive): the adapter after the call and the
\* diagram returned
construct_count(ad, m, c, alive) ==
    LET b0    == build_node_bool(ad, FALSE)
        b1    == build_node_bool(b0.ad, TRUE)
        parts == SubSeq([j \in 1..(alive + 2) |->
                           IF j - 1 = alive THEN b1.dd ELSE b0.dd], 1, alive + 2)
        remaining_cells == Len(neighbourhood(c))
    IN  IF alive > remaining_cells
        THEN [ad |-> b1.ad, dd |-> bot]
        ELSE build(CountLevels(m, c,
                     [ad |-> b1.ad, parts |-> parts,
                      remaining_cells |-> remaining_cells,
                      alive_min |-> alive, alive_max |-> alive],
                     varcount(m) - 1).ad)

\* root1 = b, root0 = b: b is what a build_node returned
Root1(st, b) == [ad |-> b.ad, root0 |-> st.root0, root1 |-> b.dd]
Root0(st, b) == [ad |-> b.ad, root0 |-> b.dd, root1 |-> st.root1]

\* root0 = build_node(x, root0, root0) (lines 526, 539, 551)
DontCare0(st, x) == Root0(st, build_node(st.ad, x, st.root0, st.root0))

\* root1 = build_node(x, root1, root1) (line 538)
DontCare1(st, x) == Root1(st, build_node(st.ad, x, st.root1, st.root1))

\* root1 = build_node(x_post, build_node(false), root0) (line 532)
PostLevel1(st, x) ==
    Root1(st, build_node(build_node_bool(st.ad, FALSE).ad, x,
                         build_node_bool(st.ad, FALSE).dd, st.root0))

\* root0 = build_node(x_post, root0, build_node(false)) (line 533)
PostLevel0(st, x) ==
    Root0(st, build_node(build_node_bool(st.ad, FALSE).ad, x,
                         st.root0, build_node_bool(st.ad, FALSE).dd))

\* root0 = build_node(x_pre, root0, root1) (line 545)
PreLevel(st, x) == Root0(st, build_node(st.ad, x, st.root0, st.root1))

\* the levels of construct_eq with the children of the node of x_pre
\* exchanged: root0 = (x ? root0 : root1)
EqLevelExchanged(st, x, x_pre, x_post) ==
    IF x = x_post THEN PostLevel0(PostLevel1(st, x), x)
    ELSE IF x_pre < x /\ x < x_post THEN DontCare0(DontCare1(st, x), x)
    ELSE IF x = x_pre THEN Root0(st, build_node(st.ad, x, st.root1, st.root0))
    ELSE DontCare0(st, x)

\* One level x of construct_eq (lines 522-552).  With x_pre < x_post, as the
\* function asserts, its five consecutive loops and steps visit the levels
\* varcount-1 .. 0 once each, in this order:
\*   x_post < x         root0 gets a don't-care node
\*   x = x_post         root1 = (x ? root0 : false), root0 = (x ? false : root0)
\*   x_pre < x < x_post root1, then root0, get a don't-care node
\*   x = x_pre          root0 = (x ? root1 : root0)
\*   x < x_pre          root0 gets a don't-care node
EqLevel(st, x, x_pre, x_post) ==
    IF x = x_post THEN PostLevel0(PostLevel1(st, x), x)
    ELSE IF x_pre < x /\ x < x_post THEN DontCare0(DontCare1(st, x), x)
    ELSE IF x = x_pre THEN PreLevel(st, x)
    ELSE DontCare0(st, x)

RECURSIVE EqLevels(_, _, _, _)
EqLevels(st, x, x_pre, x_post) ==
    Then(st,
         IF x < 0 THEN st
         ELSE EqLevels(EqLevel(st, x, x_pre, x_post), x - 1, x_pre, x_post))

\* construct_eq(adapter, vm, c)
construct_eq(ad, sizes, m, c) ==
    LET x_pre  == VarOf(sizes, m, Reprime(c, pre))
        x_post == VarOf(sizes, m, Reprime(c, post))
        t      == build_node_bool(ad, TRUE)
    IN  build(EqLevels([ad |-> t.ad, root0 |-> t.dd, root1 |-> t.dd],
                       varcount(m) - 1, x_pre, x_post).ad)

\* the three implications of construct_rel conjoined (lines 566-585), from
\* the diagrams alive_3 and alive_4 and from what construct_eq returned
construct_rel_out(alive_3, alive_4, eq, x_post) ==
    [ad |-> eq.ad,
     dd |-> apply_and(
                apply_and(apply_imp(alive_3, ithvar(x_post)),
                          apply_imp(alive_4, eq.dd)),
                apply_imp(bdd_not(apply_or(alive_3, alive_4)), nithvar(x_post)))]

\* construct_rel from the call of construct_eq on (line 574): alive_3 and
\* alive_4 are what the calls of construct_count returned
construct_rel_eq(alive_3, alive_4, sizes, m, c) ==
    construct_rel_out(alive_3.dd, alive_4.dd,
                      construct_eq(alive_4.ad, sizes, m, c),
                      VarOf(sizes, m, Reprime(c, post)))

\* construct_rel from the second call of construct_count on (line 562)
construct_rel_4(alive_3, sizes, m, c) ==
    construct_rel_eq(alive_3, construct_count(alive_3.ad, m, c, 4), sizes, m, c)

\* construct_rel(adapter, vm, c)
construct_rel(ad, sizes, m, c) ==
    construct_rel_4(construct_count(ad, m, c, 3), sizes, m, c)

(***************************************************************************)
(* The assert() statements a call passes through; a build without NDEBUG   *)
(* aborts where one of them is false.                                      *)
(***************************************************************************)
\* cell::neighbourhood() (lines 183, 197-199)
neighbourhood_asserts(sizes, c) ==
    /\ c.prime = post
    /\ \A i \in 1..Len(neighbourhood(c)) : ~out_of_range(sizes, neighbourhood(c)[i])

\* construct_count (line 452 and the call of neighbourhood() in line 457;
\* those of lines 474 and 482 follow from the max() and the guard before them)
construct_count_asserts(sizes, c, alive) ==
    /\ 0 <= alive
    /\ neighbourhood_asserts(sizes, c)

\* construct_eq (line 515)
construct_eq_asserts(sizes, m, c) ==
    VarOf(sizes, m, Reprime(c, pre)) < VarOf(sizes, m, Reprime(c, post))

\* construct_rel: those of its callees
construct_rel_asserts(sizes, m, c) ==
    /\ construct_count_asserts(sizes, c, 3)
    /\ construct_count_asserts(sizes, c, 4)
    /\ construct_eq_asserts(sizes, m, c)

(***************************************************************************)
(* Garden of Eden (game-of-life.cpp 596-768).                              *)
(***************************************************************************)
\* line 611: cell c(row, col), of the default primality prime::pre
acc_rel_cell(row, col) == Cell(row, col, pre)

\* an iteration that assigns the relation of the cell to res
acc_rel_col_assigned(st, rel) == [ad |-> rel.ad, dd |-> rel.dd]

\* one iteration of the loop of acc_rel(adapter, vm, row): rel is what
\* construct_rel returned, st the adapter and the relation accumulated so far
acc_rel_col(st, rel) == [ad |-> rel.ad, dd |-> apply_and(st.dd, rel.dd)]

\* the loop of acc_rel(adapter, vm, row) over the columns (lines 610-621);
\* the cell it constructs has the default primality, prime::pre
RECURSIVE acc_rel_cols(_, _, _, _, _)
acc_rel_cols(sizes, m, row, col, st) ==
    Then(st,
         IF col < MIN_COL(post) THEN st
         ELSE acc_rel_cols(sizes, m, row, col - 1,
                acc_rel_col(st, construct_rel(st.ad, sizes, m, acc_rel_cell(row, col)))))

\* acc_rel(adapter, vm, row)
acc_rel_row(ad, sizes, m, row) ==
    acc_rel_cols(sizes, m, row, MAX_COL(sizes, post), [ad |-> ad, dd |-> top])

\* the variables the predicate of exists() selects: the pre variables, of
\* row quant_row (lines 681-683) or of every row (lines 752-754)
PreVarsOfRow(m, quant_row) ==
    {x \in 0..(varcount(m) - 1) :
        CellOf(m, x).prime = pre /\ CellOf(m, x).row = quant_row}

\* the predicate of the last exists() narrowed to the pre variables of row 0
PreVarsOfFirstRow(m) == PreVarsOfRow(m, MIN_ROW(pre))

PreVars(m) ==
    {x \in 0..(varcount(m) - 1) : CellOf(m, x).prime = pre}

\* a sweep that quantifies the row it has just conjoined
sweep_quant_row_same(bottom, row) == row

\* line 677: the row behind the sweep
sweep_quant_row(bottom, row) == row + (IF bottom THEN 1 ELSE -1)

\* a top sweep that quantifies as far as the bottom sweep does
sweep_quantifies_alike(bottom, begin, quant_row) ==
    IF bottom THEN begin <= quant_row ELSE quant_row <= begin

\* the condition of line 679
sweep_quantifies(bottom, begin, quant_row) ==
    IF bottom THEN begin <= quant_row ELSE quant_row < begin

\* one iteration of the loop of acc_rel(adapter, vm, bottom) (lines 648-699):
\* row_rel is what acc_rel(adapter, vm, row) returned; the row behind the
\* sweep is quantified once the sweep has left the first row
acc_rel_sweep(st, row_rel, m, bottom, begin, row) ==
    [ad |-> row_rel.ad,
     dd |-> IF sweep_quantifies(bottom, begin, sweep_quant_row(bottom, row))
            THEN exists(apply_and(st.dd, row_rel.dd),
                        PreVarsOfRow(m, sweep_quant_row(bottom, row)))
            ELSE apply_and(st.dd, row_rel.dd)]

\* the loop of acc_rel(adapter, vm, bottom) over the rows (lines 647-700)
RECURSIVE acc_rel_rows(_, _, _, _, _, _, _)
acc_rel_rows(sizes, m, bottom, begin, end, row, st) ==
    Then(st,
         IF (IF bottom THEN end <= row ELSE row <= end)
         THEN acc_rel_rows(sizes, m, bottom, begin, end,
                IF bottom THEN row - 1 ELSE row + 1,
                acc_rel_sweep(st, acc_rel_row(st.ad, sizes, m, row),
                              m, bottom, begin, row))
         ELSE st)

\* acc_rel(adapter, vm, bottom)
acc_rel_half(ad, sizes, m, bottom) ==
    LET half_rows == rows(sizes, post) \div 2
        top_begin == MIN_ROW(post)
        top_end   == top_begin + half_rows - 1
        bot_begin == MAX_ROW(sizes, post)
        bot_end   == bot_begin - half_rows + 1
        begin     == IF bottom THEN bot_begin ELSE top_begin
        end       == IF bottom THEN bot_end ELSE top_end
    IN  acc_rel_rows(sizes, m, bottom, begin, end, begin, [ad |-> ad, dd |-> top])

\* res &= rel (lines 730 and 739), rel being what an acc_rel returned
garden_of_eden_and(st, rel) == [ad |-> rel.ad, dd |-> apply_and(st.dd, rel.dd)]

\* garden_of_eden without the middle row of a grid with an odd number of rows
garden_of_eden_middle_skipped(st, sizes, m) == st

\* the middle row of a grid with an odd number of rows (lines 734-741)
garden_of_eden_middle(st, sizes, m) ==
    IF rows(sizes, post) % 2 = 1
    THEN garden_of_eden_and(st,
           acc_rel_row(st.ad, sizes, m, rows(sizes, post) \div 2 + 1))
    ELSE st

\* the last exists() (lines 751-754): the adapter, the relation accumulated
\* before it (acc) and the relation returned (dd)
garden_of_eden_exists(st, xs) ==
    [ad |-> st.ad, acc |-> st.dd, dd |-> exists(st.dd, xs)]

\* the second sweep conjoined with the first (line 730)
garden_of_eden_second(st, sizes, m, bottom) ==
    garden_of_eden_and(st, acc_rel_half(st.ad, sizes, m, bottom))

\* garden_of_eden that keeps the first sweep and overwrites, instead of
\* conjoins, nothing else: the second sweep and the middle row are dropped
garden_of_eden_first_only(ad, sizes, m, first) ==
    garden_of_eden_exists(acc_rel_half(ad, sizes, m, first), PreVars(m))

\* garden_of_eden with the sweep acc_rel(adapter, vm, first) accumulated
\* first and acc_rel(adapter, vm, ~first) second
garden_of_eden_from(ad, sizes, m, first) ==
    garden_of_eden_exists(
        garden_of_eden_middle(
            garden_of_eden_second(acc_rel_half(ad, sizes, m, first),
                                  sizes, m, ~first),
            sizes, m),
        PreVars(m))

\* garden_of_eden(adapter, vm): the top half first (line 720), then the
\* bottom half (line 730)
garden_of_eden(ad, sizes, m) == garden_of_eden_from(ad, sizes, m, FALSE)

\* the assert() statements garden_of_eden passes through first: those of the
\* first construct_rel, whose cell has row MIN_ROW(post) (the first row of
\* the top sweep, or the middle row of a grid of one row) and column
\* MAX_COL(post)
garden_of_eden_asserts(sizes, m) ==
    construct_rel_asserts(sizes, m, Cell(MIN_ROW(post), MAX_COL(sizes, post), pre))

(***************************************************************************)
(* SpecBuild: the builders called on a constructed map and adapter.        *)
(***************************************************************************)
\* the interior grids whose diagrams are built
BuildSizes == (1..MaxRows) \X (1..MaxCols)

\* the cells at an interior coordinate, of either primality
InteriorCells(sizes) ==
    {Cell(r, c, p) : r \in MIN_ROW(post)..MAX_ROW(sizes, post),
                     c \in MIN_COL(post)..MAX_COL(sizes, post),
                     p \in BOOLEAN}

NoCall == [op |-> "none"]

\* nothing returned yet
NoRet == Value(0)

InitBuild ==
    /\ input_sizes \in BuildSizes
    /\ option \in Symmetries
    /\ should_exit = FALSE
    /\ ndebug \in BOOLEAN
    /\ N = 0
    /\ pc = "idle"
    /\ vm \in var_maps(input_sizes, option)
    /\ adapter = adapter_new(varcount(vm))
    /\ res = bot
    /\ solutions = 0
    /\ status = 0
    /\ call = NoCall
    /\ ret = bot

\* a failed assert() ends the process
Aborted ==
    /\ pc' = "aborted"
    /\ ret' = bot
    /\ UNCHANGED adapter

ConstructCount(c, alive) ==
    /\ pc = "idle"
    /\ call' = [op |-> "construct_count", c |-> c, alive |-> alive]
    /\ IF ndebug \/ construct_count_asserts(input_sizes, c, alive)
       THEN LET r == construct_count(adapter, vm, c, alive)
            IN  /\ adapter' = r.ad
                /\ ret' = r.dd
                /\ pc' = "called"
       ELSE Aborted
    /\ UNCHANGED <<input_sizes, option, should_exit, vm, res, solutions, status,
                   ndebug, N>>

ConstructEq(c) ==
    /\ pc = "idle"
    /\ call' = [op |-> "construct_eq", c |-> c]
    /\ IF ndebug \/ construct_eq_asserts(input_sizes, vm, c)
       THEN LET r == construct_eq(adapter, input_sizes, vm, c)
            IN  /\ adapter' = r.ad
                /\ ret' = r.dd
                /\ pc' = "called"
       ELSE Aborted
    /\ UNCHANGED <<input_sizes, option, should_exit, vm, res, solutions, status,
                   ndebug, N>>

ConstructRel(c) ==
    /\ pc = "idle"
    /\ call' = [op |-> "construct_rel", c |-> c]
    /\ IF ndebug \/ construct_rel_asserts(input_sizes, vm, c)
       THEN LET r == construct_rel(adapter, input_sizes, vm, c)
            IN  /\ adapter' = r.ad
                /\ ret' = r.dd
                /\ pc' = "called"
       ELSE Aborted
    /\ UNCHANGED <<input_sizes, option, should_exit, vm, res, solutions, status,
                   ndebug, N>>

\* the caller drops the returned diagram; the adapter keeps its state
Drop ==
    /\ pc = "called"
    /\ pc' = "idle"
    /\ call' = NoCall
    /\ ret' = bot
    /\ UNCHANGED <<input_sizes, option, should_exit, vm, adapter, res, solutions,
                   status, ndebug, N>>

NextBuild ==
    \/ \E c \in InteriorCells(input_sizes), alive \in 0..MaxAlive :
          ConstructCount(c, alive)
    \/ \E c \in InteriorCells(input_sizes) : ConstructEq(c)
    \/ \E c \in InteriorCells(input_sizes) : ConstructRel(c)
    \/ Drop

SpecBuild == InitBuild /\ [][NextBuild]_vars

(***************************************************************************)
(* SpecMap: a var_map is constructed and queried.                          *)
(***************************************************************************)
\* the cells a query can name: every coordinate of the pre grid and one
\* step around it, of either primality (the unchecked constructor
\* cell(const cell&, bool) builds any of them)
QueryCells(sizes) ==
    {Cell(r, c, p) : r \in (-1)..(MAX_ROW(sizes, pre) + 1),
                     c \in (-1)..(MAX_COL(sizes, pre) + 1),
                     p \in BOOLEAN}

\* the candidates handed to cell_from_var(x, c): the interior cells, the
\* illegal cell of cell::cell(), and the post copy of the corner of the border
\* that cell(const cell&, bool) builds
CandidateCells(sizes) ==
    InteriorCells(sizes)
        \cup {DefaultCell, Reprime(Cell(MIN_ROW(pre), MIN_COL(pre), pre), post)}

InitMap ==
    /\ input_sizes \in (1..MaxRows) \X (1..MaxCols)
    /\ option \in Symmetries
    /\ should_exit = FALSE
    /\ ndebug \in BOOLEAN
    /\ N = 0
    /\ pc = "start"
    /\ vm = NoMap
    /\ adapter = NoAdapter
    /\ res = bot
    /\ solutions = 0
    /\ status = 0
    /\ call = NoCall
    /\ ret = NoRet

\* var_map::var_map(option), with the assert() of line 332
VarMapCtor ==
    /\ pc = "start"
    /\ call' = [op |-> "var_map"]
    /\ \E m \in var_maps(input_sizes, option) :
          IF ndebug \/ m.varcount[pre] = rows(input_sizes, pre) * cols(input_sizes, pre)
          THEN vm' = m /\ pc' = "idle"
          ELSE vm' = vm /\ pc' = "aborted"
    /\ UNCHANGED <<input_sizes, option, should_exit, adapter, res, solutions,
                   status, ret, ndebug, N>>

VarFromCell(c) ==
    /\ pc = "idle"
    /\ call' = [op |-> "var_from_cell", c |-> c]
    /\ ret' = var_from_cell(input_sizes, vm, c)
    /\ pc' = "called"
    /\ UNCHANGED <<input_sizes, option, should_exit, vm, adapter, res, solutions,
                   status, ndebug, N>>

\* cell_from_var(x), with the assert() of line 368
CellFromVar(x) ==
    /\ pc = "idle"
    /\ call' = [op |-> "cell_from_var", x |-> x]
    /\ IF ndebug \/ (0 <= x /\ x < Len(vm.inv))
       THEN ret' = cell_from_var(vm, x) /\ pc' = "called"
       ELSE ret' = NoRet /\ pc' = "aborted"
    /\ UNCHANGED <<input_sizes, option, should_exit, vm, adapter, res, solutions,
                   status, ndebug, N>>

\* cell_from_var(x, c)
CellFromVarCand(x, c) ==
    /\ pc = "idle"
    /\ call' = [op |-> "cell_from_var_cand", x |-> x, c |-> c]
    /\ LET c_x == var_from_cell(input_sizes, vm, c)
       IN  IF /\ ~c_x.thrown
              /\ c_x.val # x
              /\ ~ndebug
              /\ ~(0 <= x /\ x < Len(vm.inv))
           THEN ret' = NoRet /\ pc' = "aborted"
           ELSE ret' = cell_from_var_cand(input_sizes, vm, x, c) /\ pc' = "called"
    /\ UNCHANGED <<input_sizes, option, should_exit, vm, adapter, res, solutions,
                   status, ndebug, N>>

\* the caller is done with the value returned, or has caught the exception
Return ==
    /\ pc = "called"
    /\ pc' = "idle"
    /\ call' = NoCall
    /\ ret' = NoRet
    /\ UNCHANGED <<input_sizes, option, should_exit, vm, adapter, res, solutions,
                   status, ndebug, N>>

NextMap ==
    \/ VarMapCtor
    \/ \E c \in QueryCells(input_sizes) : VarFromCell(c)
    \/ \E x \in (-1)..varcount(vm) : CellFromVar(x)
    \/ \E x \in (-1)..varcount(vm), c \in CandidateCells(input_sizes) :
          CellFromVarCand(x, c)
    \/ Return

SpecMap == InitMap /\ [][NextMap]_vars

(***************************************************************************)
(* Spec: run_gameoflife (game-of-life.cpp 771-849).                        *)
(***************************************************************************)
\* the sizes a command line gives: none, one, or two
ArgSizes ==
    {<<>>} \cup {<<n>> : n \in 1..MaxRows}
           \cup {<<r, c>> : r \in 1..MaxRows, c \in 1..MaxCols}

\* no option argument on the command line
NoArg == <<>>

\* the option arguments of the command lines followed
OptionArgs ==
    { <<"n", "o", "n", "e">>, <<"N", "o", "n", "e">>,
      <<"m", "i", "r", "r", "o", "r">>, <<"M", "I", "R", "R", "O", "R">>,
      <<"n", "o", "n", "e", "x">>, <<"m", "i", "r", "o", "r">>, <<"x">> }

\* parse_input(argc, argv, option): fills input_sizes with the sizes of the
\* command line, hands the option argument, if there is one, to
\* parse_option, and returns should_exit
parse_input(sizes, arg) ==
    LET opt == IF arg = NoArg THEN [value |-> "none", should_exit |-> FALSE]
               ELSE parse_option(arg, FALSE)
    IN  [input_sizes |-> sizes, option |-> opt.value,
         should_exit |-> opt.should_exit]

Init ==
    /\ input_sizes = <<>>
    /\ option = "none"
    /\ should_exit = FALSE
    /\ ndebug \in BOOLEAN
    /\ N = 0
    /\ pc = "parse_input"
    /\ vm = NoMap
    /\ adapter = NoAdapter
    /\ res = bot
    /\ solutions = 0
    /\ status = 0
    /\ call = NoCall
    /\ ret = bot

\* lines 774-775
ParseInput(sizes, arg) ==
    /\ pc = "parse_input"
    /\ LET r == parse_input(sizes, arg)
       IN  /\ input_sizes' = r.input_sizes
           /\ option' = r.option
           /\ should_exit' = r.should_exit
    /\ call' = [op |-> "parse_input", sizes |-> sizes, arg |-> arg]
    /\ pc' = "default_sizes"
    /\ UNCHANGED <<vm, adapter, res, solutions, status, ret, ndebug, N>>

\* lines 777-778
DefaultSizes ==
    /\ pc = "default_sizes"
    /\ LET s1 == IF Len(input_sizes) = 0 THEN Append(input_sizes, 4)
                 ELSE input_sizes
           s2 == IF Len(s1) = 1 THEN Append(s1, s1[1]) ELSE s1
       IN  input_sizes' = s2
    /\ pc' = "check_exit"
    /\ UNCHANGED <<option, should_exit, vm, adapter, res, solutions, status, call,
                   ret, ndebug, N>>

\* line 780
CheckExit ==
    /\ pc = "check_exit"
    /\ IF should_exit
       THEN status' = -1 /\ pc' = "returned"
       ELSE status' = status /\ pc' = "var_map"
    /\ UNCHANGED <<input_sizes, option, should_exit, vm, adapter, res, solutions,
                   call, ret, ndebug, N>>

\* line 787
MakeVarMap ==
    /\ pc = "var_map"
    /\ \E m \in var_maps(input_sizes, option) :
          IF ndebug \/ m.varcount[pre] = rows(input_sizes, pre) * cols(input_sizes, pre)
          THEN vm' = m /\ pc' = "adapter"
          ELSE vm' = vm /\ pc' = "aborted"
    /\ UNCHANGED <<input_sizes, option, should_exit, adapter, res, solutions,
                   status, call, ret, ndebug, N>>

\* line 790
MakeAdapter ==
    /\ pc = "adapter"
    /\ adapter' = adapter_new(varcount(vm))
    /\ pc' = "garden_of_eden"
    /\ UNCHANGED <<input_sizes, option, should_exit, vm, res, solutions, status,
                   call, ret, ndebug, N>>

\* line 809
GardenOfEden ==
    /\ pc = "garden_of_eden"
    /\ rows(input_sizes, post) * cols(input_sizes, post) <= MaxCells
    /\ IF ndebug \/ garden_of_eden_asserts(input_sizes, vm)
       THEN LET r == garden_of_eden(adapter, input_sizes, vm)
            IN  /\ adapter' = r.ad
                /\ res' = r.dd
                /\ ret' = r.acc
                /\ pc' = "satcount"
       ELSE /\ pc' = "aborted"
            /\ UNCHANGED <<adapter, res, ret>>
    /\ UNCHANGED <<input_sizes, option, should_exit, vm, solutions, status, call,
                   ndebug, N>>

\* line 827 counting the relation itself instead of its negation
SatCountOfRelation ==
    /\ pc = "satcount"
    /\ solutions' = satcount(adapter, res, vm.varcount[post])
    /\ pc' = "return"
    /\ UNCHANGED <<input_sizes, option, should_exit, vm, adapter, res, status,
                   call, ret, ndebug, N>>

\* line 827
SatCount ==
    /\ pc = "satcount"
    /\ solutions' = satcount(adapter, bdd_not(res), vm.varcount[post])
    /\ pc' = "return"
    /\ UNCHANGED <<input_sizes, option, should_exit, vm, adapter, res, status,
                   call, ret, ndebug, N>>

\* line 848
ReturnSolutions ==
    /\ pc = "return"
    /\ status' = B2I(solutions # 0)
    /\ pc' = "returned"
    /\ UNCHANGED <<input_sizes, option, should_exit, vm, adapter, res, solutions,
                   call, ret, ndebug, N>>

Next ==
    \/ \E sizes \in ArgSizes, arg \in OptionArgs \cup {NoArg} :
          ParseInput(sizes, arg)
    \/ DefaultSizes
    \/ CheckExit
    \/ MakeVarMap
    \/ MakeAdapter
    \/ GardenOfEden
    \/ SatCount
    \/ ReturnSolutions

Spec == Init /\ [][Next]_vars

(***************************************************************************)
(* The Sylvan adapter (part_003).  Its diagrams are references into the    *)
(* unique table of the manager: 0 and 1 are the terminals and reference    *)
(* n + 1 is node n of the table, a triple <<x, low, high>> of a variable   *)
(* and two references.  The table holds no node twice and no node whose    *)
(* children agree, so two references denote the same function iff they     *)
(* are equal.                                                              *)
(***************************************************************************)
\* sylvan_bdd_adapter(varcount)
sylvan_bdd_adapter(n) == [varcount |-> n, table |-> <<>>]

leaf_false == 0
leaf_true  == 1

IsTerminal(f) == f \in {leaf_false, leaf_true}

NodeOf(m, f) == m.table[f - 1]

HasNode(m, nd) == \E i \in 1..Len(m.table) : m.table[i] = nd

RefOf(m, nd) == 1 + (CHOOSE i \in 1..Len(m.table) : m.table[i] = nd)

\* the node <<x, low, high>> of the unique table, added when it is new: the
\* manager after the lookup and the reference
MakeNode(m, x, low, high) ==
    IF low = high THEN [ad |-> m, dd |-> low]
    ELSE IF HasNode(m, <<x, low, high>>)
    THEN [ad |-> m, dd |-> RefOf(m, <<x, low, high>>)]
    ELSE [ad |-> [m EXCEPT !.table = Append(m.table, <<x, low, high>>)],
          dd |-> Len(m.table) + 2]

\* ithvar(label): Bdd::bddVar(label)
sylvan_ithvar(m, label) == MakeNode(m, label, leaf_false, leaf_true)

\* the topmost variable of f, g and h, where f is a node
TopOf(m, f, g, h) ==
    Min3(NodeOf(m, f)[1],
         IF IsTerminal(g) THEN NodeOf(m, f)[1] ELSE NodeOf(m, g)[1],
         IF IsTerminal(h) THEN NodeOf(m, f)[1] ELSE NodeOf(m, h)[1])

\* f with the variable x, not below the root of f, fixed to 0 or to 1
Cofactor0(m, f, x) ==
    IF ~IsTerminal(f) /\ NodeOf(m, f)[1] = x THEN NodeOf(m, f)[2] ELSE f
Cofactor1(m, f, x) ==
    IF ~IsTerminal(f) /\ NodeOf(m, f)[1] = x THEN NodeOf(m, f)[3] ELSE f

\* the node of f.Ite(g, h) for the variable x, from its low child and from
\* what the recursion returned for the high child
IteNode(x, low, high) == MakeNode(high.ad, x, low, high.dd)

\* f.Ite(g, h): if f then g else h
RECURSIVE Ite(_, _, _, _)
RECURSIVE IteHigh(_, _, _, _, _)
RECURSIVE IteAt(_, _, _, _, _)
Ite(m, f, g, h) ==
    IF f = leaf_true THEN [ad |-> m, dd |-> g]
    ELSE IF f = leaf_false THEN [ad |-> m, dd |-> h]
    ELSE IF g = h THEN [ad |-> m, dd |-> g]
    ELSE IF g = leaf_true /\ h = leaf_false THEN [ad |-> m, dd |-> f]
    ELSE IteAt(m, f, g, h, TopOf(m, f, g, h))

IteAt(m, f, g, h, x) ==
    IteHigh(Ite(m, Cofactor0(m, f, x), Cofactor0(m, g, x), Cofactor0(m, h, x)),
            f, g, h, x)

IteHigh(low, f, g, h, x) ==
    IteNode(x, low.dd,
            Ite(low.ad, Cofactor1(low.ad, f, x), Cofactor1(low.ad, g, x),
                Cofactor1(low.ad, h, x)))

\* ite(f, g, h) of the adapter, f being what ithvar returned
sylvan_ite(f, g, h) == Ite(f.ad, f.dd, g, h)

(***************************************************************************)
(* Tic-Tac-Toe (tic_tac_toe.cpp).                                          *)
(***************************************************************************)
\* the 64 positions of the cube: mgr_t mgr(64)
Labels == 64

\* the deepest level, where construct_init starts
LastLevel == 63

label_of_position(i, j, k) == (4 * 4 * i) + (4 * j) + k

\* a window that never leaves slot 0 behind
min_idx_zero(curr_level, n) == 0

\* min_idx (line 97).  The operands are size_t: for N > 63 the difference
\* 63 - N wraps around to a value above every level, and the comparison fails.
min_idx(curr_level, n) ==
    IF n <= LastLevel /\ curr_level > LastLevel - n
    THEN n - (LastLevel - curr_level + 1) ELSE 0

\* max_idx (line 98)
max_idx(curr_level, n) == IF curr_level < n THEN curr_level ELSE n

\* init_parts[curr_idx] = b (line 104), b being what ite returned; built
\* counts the nodes asked of the manager
SlotBuilt(st, curr_idx, b) ==
    [ad |-> b.ad, parts |-> [st.parts EXCEPT ![curr_idx] = b.dd],
     built |-> st.built + 1]

\* the body of the loop over curr_idx (lines 101-104)
InitSlot(st, curr_level, curr_idx, n) ==
    SlotBuilt(st, curr_idx,
              sylvan_ite(sylvan_ithvar(st.ad, curr_level),
                         st.parts[curr_idx],
                         IF curr_idx = n THEN leaf_false
                         ELSE st.parts[curr_idx + 1]))

\* the loop over curr_idx (lines 100-105)
RECURSIVE InitSlots(_, _, _, _, _)
InitSlots(st, curr_level, curr_idx, last_idx, n) ==
    Then(st,
         IF curr_idx > last_idx THEN st
         ELSE InitSlots(InitSlot(st, curr_level, curr_idx, n),
                        curr_level, curr_idx + 1, last_idx, n))

\* the body of the loop over curr_level (lines 97-105), on the locals of
\* construct_init: init_parts, curr_level and the manager
InitLevel(st, curr_level, n) ==
    InitSlots(st, curr_level, min_idx(curr_level, n), max_idx(curr_level, n), n)

\* no_Xs = b and only_Xs = b, b being what ite returned
SetNoXs(st, b)   == [ad |-> b.ad, no_Xs |-> b.dd, only_Xs |-> st.only_Xs]
SetOnlyXs(st, b) == [ad |-> b.ad, no_Xs |-> st.no_Xs, only_Xs |-> b.dd]

\* lines 124-126, for the variable x = line[idx]
NoXs(st, x, idx) ==
    SetNoXs(st, sylvan_ite(sylvan_ithvar(st.ad, x),
                           IF idx = 0 THEN st.only_Xs ELSE leaf_true,
                           st.no_Xs))

\* the loop body without the update of only_Xs
OnlyXsSkipped(st, x) == st

\* lines 129-131
OnlyXs(st, x) ==
    SetOnlyXs(st, sylvan_ite(sylvan_ithvar(st.ad, x), st.only_Xs, leaf_true))

\* the body of the loop over idx (lines 124-132); element idx of the array
\* is element idx + 1 of the sequence
WinLevel(st, line, idx) ==
    IF idx > 0 THEN OnlyXs(NoXs(st, line[idx + 1], idx), line[idx + 1])
    ELSE NoXs(st, line[idx + 1], idx)

\* the loop over idx (lines 123-133): idx = 3 down to 0
RECURSIVE WinLevels(_, _, _)
WinLevels(st, line, idx) ==
    Then(st,
         IF idx < 0 THEN st
         ELSE WinLevels(WinLevel(st, line, idx), line, idx - 1))

\* what construct_is_not_winning leaves: the manager and no_Xs
WinResult(st) == [ad |-> st.ad, dd |-> st.no_Xs]

\* construct_is_not_winning(mgr, line)
construct_is_not_winning(m, line) ==
    WinResult(WinLevels([ad |-> m, no_Xs |-> leaf_false, only_Xs |-> leaf_false],
                        line, 4 - 1))

\* the four positions (i, j, k) of a line, as labels
Line(p0, p1, p2, p3) ==
    << label_of_position(p0[1], p0[2], p0[3]), label_of_position(p1[1], p1[2], p1[3]),
       label_of_position(p2[1], p2[2], p2[3]), label_of_position(p3[1], p3[2], p3[3]) >>

\* the lines of construct_lines (lines 19-76), in the order of push_back; a
\* loop with two indices a, b = 0..3, a outermost, pushes 16 lines
lines ==
    [n \in 1..16 |-> Line(<<(n - 1) \div 4, (n - 1) % 4, 0>>, <<(n - 1) \div 4, (n - 1) % 4, 1>>,
                          <<(n - 1) \div 4, (n - 1) % 4, 2>>, <<(n - 1) \div 4, (n - 1) % 4, 3>>)]
      \o [n \in 1..4 |-> Line(<<n - 1, 0, 3>>, <<n - 1, 1, 2>>, <<n - 1, 2, 1>>, <<n - 1, 3, 0>>)]
      \o [n \in 1..16 |-> Line(<<(n - 1) \div 4, 0, (n - 1) % 4>>, <<(n - 1) \div 4, 1, (n - 1) % 4>>,
                               <<(n - 1) \div 4, 2, (n - 1) % 4>>, <<(n - 1) \div 4, 3, (n - 1) % 4>>)]
      \o [n \in 1..4 |-> Line(<<n - 1, 0, 0>>, <<n - 1, 1, 1>>, <<n - 1, 2, 2>>, <<n - 1, 3, 3>>)]
      \o << Line(<<0, 3, 3>>, <<1, 2, 2>>, <<2, 1, 1>>, <<3, 0, 0>>),
            Line(<<0, 3, 0>>, <<1, 2, 1>>, <<2, 1, 2>>, <<3, 0, 3>>) >>
      \o [n \in 1..4 |-> Line(<<0, n - 1, 3>>, <<1, n - 1, 2>>, <<2, n - 1, 1>>, <<3, n - 1, 0>>)]
      \o [n \in 1..16 |-> Line(<<0, (n - 1) \div 4, (n - 1) % 4>>, <<1, (n - 1) \div 4, (n - 1) % 4>>,
                               <<2, (n - 1) \div 4, (n - 1) % 4>>, <<3, (n - 1) \div 4, (n - 1) % 4>>)]
      \o [n \in 1..4 |-> Line(<<0, n - 1, 0>>, <<1, n - 1, 1>>, <<2, n - 1, 2>>, <<3, n - 1, 3>>)]
      \o [n \in 1..4 |-> Line(<<0, 3, n - 1>>, <<1, 2, n - 1>>, <<2, 1, n - 1>>, <<3, 0, n - 1>>)]
      \o [n \in 1..4 |-> Line(<<0, 0, n - 1>>, <<1, 1, n - 1>>, <<2, 2, n - 1>>, <<3, 3, n - 1>>)]
      \o << Line(<<0, 0, 3>>, <<1, 1, 2>>, <<2, 2, 1>>, <<3, 3, 0>>),
            Line(<<0, 0, 0>>, <<1, 1, 1>>, <<2, 2, 2>>, <<3, 3, 3>>) >>

(***************************************************************************)
(* SpecTTT: run_tic_tac_toe (tic_tac_toe.cpp 139-209) up to its builders,  *)
(* each called on the manager as constructed.  construct_init is followed  *)
(* level by level; call holds its locals while it runs.                    *)
(***************************************************************************)
\* the lines of four distinct labels of 0..MaxLabel, in every order
ArbitraryLines ==
    {l \in [1..4 -> 0..MaxLabel] : \A i, j \in 1..4 : i # j => l[i] # l[j]}

\* the lines handed to construct_is_not_winning
LinesBuilt == {lines[i] : i \in 1..Len(lines)} \cup ArbitraryLines

\* line 142: N = 20
InitTTT ==
    /\ input_sizes = <<>>
    /\ option = "none"
    /\ should_exit = FALSE
    /\ ndebug = TRUE
    /\ N = 20
    /\ pc = "parse_input"
    /\ vm = NoMap
    /\ adapter = NoAdapter
    /\ res = bot
    /\ solutions = 0
    /\ status = 0
    /\ call = NoCall
    /\ ret = leaf_false

\* line 143: parse_input(argc, argv) reads N from the command line
ParseInputN(n) ==
    /\ pc = "parse_input"
    /\ N' = n
    /\ call' = [op |-> "parse_input", N |-> n]
    /\ pc' = "manager"
    /\ UNCHANGED <<input_sizes, option, should_exit, vm, adapter, res, solutions,
                   status, ret, ndebug>>

\* line 152: mgr_t mgr(64)
MakeManager ==
    /\ pc = "manager"
    /\ adapter' = sylvan_bdd_adapter(Labels)
    /\ pc' = "idle"
    /\ UNCHANGED <<input_sizes, option, should_exit, vm, res, solutions, status,
                   call, ret, ndebug, N>>

\* construct_init is entered (lines 87-94)
ConstructInitCall ==
    /\ pc = "idle"
    /\ call' = [op |-> "construct_init",
                init_parts |-> [i \in 0..N |->
                                  IF i < N THEN leaf_false ELSE leaf_true],
                curr_level |-> LastLevel,
                built |-> 0]
    /\ pc' = "construct_init"
    /\ UNCHANGED <<input_sizes, option, should_exit, vm, adapter, res, solutions,
                   status, ret, ndebug, N>>

\* one iteration of the do-while loop (lines 96-106); the decrement after
\* level 0 wraps around and its value is not read again
ConstructInitLevel ==
    /\ pc = "construct_init"
    /\ LET st == InitLevel([ad |-> adapter, parts |-> call.init_parts,
                            built |-> call.built], call.curr_level, N)
       IN  /\ adapter' = st.ad
           /\ call' = [call EXCEPT !.init_parts = st.parts,
                                   !.built = st.built,
                                   !.curr_level = IF @ > 0 THEN @ - 1 ELSE @]
    /\ pc' = IF call.curr_level > 0 THEN "construct_init" ELSE "construct_init_return"
    /\ UNCHANGED <<input_sizes, option, should_exit, vm, res, solutions, status,
                   ret, ndebug, N>>

\* lines 108-110
ConstructInitReturn ==
    /\ pc = "construct_init_return"
    /\ ret' = call.init_parts[0]
    /\ pc' = "called"
    /\ UNCHANGED <<input_sizes, option, should_exit, vm, adapter, res, solutions,
                   status, call, ndebug, N>>

ConstructIsNotWinning(line) ==
    /\ pc = "idle"
    /\ call' = [op |-> "construct_is_not_winning", line |-> line]
    /\ LET r == construct_is_not_winning(adapter, line)
       IN  /\ adapter' = r.ad
           /\ ret' = r.dd
    /\ pc' = "called"
    /\ UNCHANGED <<input_sizes, option, should_exit, vm, res, solutions, status,
                   ndebug, N>>

NextTTT ==
    \/ \E n \in 0..MaxN : ParseInputN(n)
    \/ MakeManager
    \/ ConstructInitCall
    \/ ConstructInitLevel
    \/ ConstructInitReturn
    \/ \E line \in LinesBuilt : ConstructIsNotWinning(line)

SpecTTT == InitTTT /\ [][NextTTT]_vars

(***************************************************************************)
(* The sizes the BuDDy adapter initialises the package with (part_001      *)
(* 47-93), and SpecSizes: the constructor up to bdd_init (lines 125-130).  *)
(* The operands are size_t and the budgets drawn stay far below 2^31, so   *)
(* no operation wraps around.                                              *)
(***************************************************************************)
\* std::min and std::max
std_min(a, b) == IF b < a THEN b ELSE a
std_max(a, b) == IF a < b THEN b ELSE a

max_int == 2147483647
min_cache_ratio == 32
max_cache_ratio == 64
sizeof_node == 24
sizeof_cache == 16
caches == 6

\* line 69
sizeof_norm == sizeof_node * max_cache_ratio + sizeof_cache * caches

\* line 72
table_nodes(memory_bytes) == (memory_bytes \div sizeof_norm) * max_cache_ratio

\* the condition of the assert of line 73
table_assert(memory_bytes, nodes) ==
    nodes * sizeof_node + (nodes \div max_cache_ratio) * sizeof_cache <= memory_bytes

\* table_size(memory_bytes), line 76
table_size(memory_bytes) == std_min(table_nodes(memory_bytes), max_int)

\* lines 83, 86 and 89 of cache_size
min_cache(nodes) == nodes \div max_cache_ratio
max_cache(nodes) == nodes \div min_cache_ratio
cache_memory(memory_bytes, nodes) ==
    (memory_bytes - nodes * sizeof_node) \div (sizeof_cache * caches)

\* cache_size(memory_bytes, nodes), line 92: cache_memory is not an operand
cache_size(memory_bytes, nodes) ==
    std_max(min_cache(nodes), std_min(max_cache(nodes), max_cache(nodes)))

\* the memory budgets: every number of bytes up to MaxBytes, and M MiB
Budgets == (0..MaxBytes) \cup {mib * 1024 * 1024 : mib \in 1..MaxMiB}

InitSizes ==
    /\ input_sizes = <<>>
    /\ option = "none"
    /\ should_exit = FALSE
    /\ ndebug \in BOOLEAN
    /\ N = 0
    /\ pc = "memory_bytes"
    /\ vm = NoMap
    /\ adapter = NoAdapter
    /\ res = bot
    /\ solutions = 0
    /\ status = 0
    /\ call = NoCall
    /\ ret = 0

\* line 125: memory_bytes = M * 1024 * 1024, or any budget handed to the
\* two functions
MemoryBytes(memory_bytes) ==
    /\ pc = "memory_bytes"
    /\ call' = [op |-> "buddy_bdd_adapter", memory_bytes |-> memory_bytes, nodes |-> 0]
    /\ pc' = "table_size"
    /\ UNCHANGED <<input_sizes, option, should_exit, vm, adapter, res, solutions,
                   status, ret, ndebug, N>>

\* line 127: nodes = table_size(memory_bytes); the assert aborts a build
\* with assertions when its condition fails
TableSize ==
    /\ pc = "table_size"
    /\ IF ~ndebug /\ ~table_assert(call.memory_bytes, table_nodes(call.memory_bytes))
       THEN /\ pc' = "aborted"
            /\ UNCHANGED call
       ELSE /\ call' = [call EXCEPT !.nodes = table_size(call.memory_bytes)]
            /\ pc' = "cache_size"
    /\ UNCHANGED <<input_sizes, option, should_exit, vm, adapter, res, solutions,
                   status, ret, ndebug, N>>

\* line 128: caches = cache_size(memory_bytes, nodes)
CacheSize ==
    /\ pc = "cache_size"
    /\ ret' = cache_size(call.memory_bytes, call.nodes)
    /\ pc' = "bdd_init"
    /\ UNCHANGED <<input_sizes, option, should_exit, vm, adapter, res, solutions,
                   status, call, ndebug, N>>

NextSizes ==
    \/ \E memory_bytes \in Budgets : MemoryBytes(memory_bytes)
    \/ TableSize
    \/ CacheSize

SpecSizes == InitSizes /\ [][NextSizes]_vars

(***************************************************************************)
(* SpecCount: construct_count (lines 448-506) followed variable by         *)
(* variable: one action for every iteration of the loop of line 465.  call *)
(* holds the arguments c and alive and the locals x, init_parts,           *)
(* remaining_cells, alive_min and alive_max, and whether the variable of   *)
(* the last iteration was one of the neighbourhood.                        *)
(***************************************************************************)
\* most interior cells of a grid whose counts are followed
MaxCountCells == 2

CountGrids == {sizes \in BuildSizes : sizes[1] * sizes[2] <= MaxCountCells}

InitCount ==
    /\ input_sizes \in CountGrids
    /\ option \in Symmetries
    /\ should_exit = FALSE
    /\ ndebug \in BOOLEAN
    /\ N = 0
    /\ pc = "idle"
    /\ vm \in var_maps(input_sizes, option)
    /\ adapter = adapter_new(varcount(vm))
    /\ res = bot
    /\ solutions = 0
    /\ status = 0
    /\ call = NoCall
    /\ ret = bot

\* lines 454-455: init_parts(alive + 2, build_node(false)) and
\* init_parts.at(alive) = build_node(true); b is what the second returned
CountParts(alive, b) ==
    SubSeq([j \in 1..(alive + 2) |-> IF j - 1 = alive THEN b.dd ELSE bot],
           1, alive + 2)

\* the rest of lines 452-464 once the two terminals are built
CountEntered(c, alive, b) ==
    /\ adapter' = b.ad
    /\ IF alive > Len(neighbourhood(c))
       THEN /\ ret' = bot
            /\ pc' = "called"
            /\ call' = [op |-> "construct_count", c |-> c, alive |-> alive,
                        x |-> varcount(vm) - 1, init_parts |-> CountParts(alive, b),
                        remaining_cells |-> Len(neighbourhood(c)),
                        alive_min |-> alive, alive_max |-> alive,
                        stepped |-> "returned early"]
       ELSE /\ ret' = ret
            /\ pc' = "construct_count"
            /\ call' = [op |-> "construct_count", c |-> c, alive |-> alive,
                        x |-> varcount(vm) - 1, init_parts |-> CountParts(alive, b),
                        remaining_cells |-> Len(neighbourhood(c)),
                        alive_min |-> alive, alive_max |-> alive,
                        stepped |-> "none"]

\* construct_count is entered (lines 452-464)
CountEnter(c, alive) ==
    /\ pc = "idle"
    /\ IF ndebug \/ construct_count_asserts(input_sizes, c, alive)
       THEN CountEntered(c, alive,
              build_node_bool(build_node_bool(adapter, FALSE).ad, TRUE))
       ELSE /\ pc' = "aborted"
            /\ call' = [op |-> "construct_count", c |-> c, alive |-> alive]
            /\ UNCHANGED <<adapter, ret>>
    /\ UNCHANGED <<input_sizes, option, should_exit, vm, res, solutions, status,
                   ndebug, N>>

\* the locals after the iteration for x, st being what CountLevel returned
CountStepped(st) ==
    /\ adapter' = st.ad
    /\ call' = [call EXCEPT !.x = @ - 1,
                            !.init_parts = st.parts,
                            !.remaining_cells = st.remaining_cells,
                            !.alive_min = st.alive_min,
                            !.alive_max = st.alive_max,
                            !.stepped = IF st.remaining_cells < call.remaining_cells
                                        THEN "neighbour" ELSE "other"]

\* one iteration of the loop over x (lines 465-503)
CountStep ==
    /\ pc = "construct_count"
    /\ 0 <= call.x
    /\ CountStepped(CountLevel(vm, call.c,
                      [ad |-> adapter, parts |-> call.init_parts,
                       remaining_cells |-> call.remaining_cells,
                       alive_min |-> call.alive_min, alive_max |-> call.alive_max],
                      call.x))
    /\ UNCHANGED <<input_sizes, option, should_exit, pc, vm, res, solutions,
                   status, ret, ndebug, N>>

\* line 505: return adapter.build()
CountReturn ==
    /\ pc = "construct_count"
    /\ call.x < 0
    /\ adapter' = build(adapter).ad
    /\ ret' = build(adapter).dd
    /\ pc' = "called"
    /\ UNCHANGED <<input_sizes, option, should_exit, vm, res, solutions, status,
                   call, ndebug, N>>

NextCount ==
    \/ \E c \in InteriorCells(input_sizes), alive \in 0..MaxAlive : CountEnter(c, alive)
    \/ CountStep
    \/ CountReturn

SpecCount == InitCount /\ [][NextCount]_vars

(***************************************************************************)
(* SpecBuilder: the build operations of the adapters (BuDDy, part_001      *)
(* 406-429; CAL, part_000 512-535, the same three bodies) called the way   *)
(* construct_count and construct_eq call them: terminals at any time,      *)
(* nodes over what the chain holds, and build() on the node built last     *)
(* (game-of-life.cpp 505, 554) or again with nothing built in between.     *)
(* call holds the chain: the handles build_node has returned since the     *)
(* previous build(), the node of the last build_node(label, low, high),    *)
(* and the number of calls of build_node.                                  *)
(***************************************************************************)
MaxBuildLabel == 1
MaxChain == 4

\* no build_node(label, low, high) since the previous build()
NoNode == [set |-> FALSE, dd |-> bot]

InitBuilder ==
    /\ input_sizes = <<>>
    /\ option = "none"
    /\ should_exit = FALSE
    /\ ndebug = TRUE
    /\ N = 0
    /\ pc = "builder"
    /\ vm = NoMap
    /\ adapter = adapter_new(MaxBuildLabel + 1)
    /\ res = bot
    /\ solutions = 0
    /\ status = 0
    /\ call = [op |-> "ctor", pool |-> {}, node |-> NoNode, calls |-> 0,
               built |-> NoNode, since |-> 0]
    /\ ret = bot

\* build_node(value) has returned b
BuilderBoolDone(b) ==
    /\ adapter' = b.ad
    /\ call' = [call EXCEPT !.op = "build_node_bool",
                            !.pool = call.pool \cup {b.dd},
                            !.calls = call.calls + 1]

\* adapter.build_node(value)
BuilderBool(value) ==
    /\ pc = "builder"
    /\ call.calls < MaxChain
    /\ BuilderBoolDone(build_node_bool(adapter, value))
    /\ UNCHANGED <<input_sizes, option, should_exit, pc, vm, res, solutions,
                   status, ret, ndebug, N>>

\* build_node(label, low, high) has returned b
BuilderNodeDone(b) ==
    /\ adapter' = b.ad
    /\ call' = [call EXCEPT !.op = "build_node",
                            !.pool = call.pool \cup {b.dd},
                            !.node = [set |-> TRUE, dd |-> b.dd],
                            !.calls = call.calls + 1]

\* adapter.build_node(label, low, high) on two handles of the chain
BuilderNode(label, low, high) ==
    /\ pc = "builder"
    /\ call.calls < MaxChain
    /\ low \in call.pool /\ high \in call.pool
    /\ BuilderNodeDone(build_node(adapter, label, low, high))
    /\ UNCHANGED <<input_sizes, option, should_exit, pc, vm, res, solutions,
                   status, ret, ndebug, N>>

\* build() has returned b: the chain is gone; built is the node of the last
\* build_node(label, low, high) of the chain, since the number of calls of
\* build_node since the previous build()
BuilderBuildDone(b) ==
    /\ adapter' = b.ad
    /\ ret' = b.dd
    /\ call' = [op |-> "build", pool |-> {}, node |-> NoNode, calls |-> 0,
                built |-> call.node, since |-> call.calls]

\* adapter.build(): the root of a chain is the node built last
BuilderBuild ==
    /\ pc = "builder"
    /\ call.node.set => call.op = "build_node"
    /\ BuilderBuildDone(build(adapter))
    /\ UNCHANGED <<input_sizes, option, should_exit, pc, vm, res, solutions,
                   status, ndebug, N>>

NextBuilder ==
    \/ \E value \in BOOLEAN : BuilderBool(value)
    \/ \E label \in 0..MaxBuildLabel, low \in call.pool, high \in call.pool :
          BuilderNode(label, low, high)
    \/ BuilderBuild

SpecBuilder == InitBuilder /\ [][NextBuilder]_vars

(***************************************************************************)
(* SpecCell: the three constructors of cell (game-of-life.cpp 106-126).    *)
(* ret is the cell constructed, or the exception thrown.                   *)
(***************************************************************************)
\* a constructor that takes any coordinate
cell_unchecked(sizes, row, col, p) == Value(Cell(row, col, p))

\* cell::cell(char row, char col, bool prime): throws when out of range
cell_checked(sizes, row, col, p) ==
    IF out_of_range(sizes, Cell(row, col, p)) THEN Throw(OutOfRange)
    ELSE Value(Cell(row, col, p))

InitCell ==
    /\ input_sizes \in BuildSizes
    /\ option = "none"
    /\ should_exit = FALSE
    /\ ndebug = TRUE
    /\ N = 0
    /\ pc = "cell"
    /\ vm = NoMap
    /\ adapter = NoAdapter
    /\ res = bot
    /\ solutions = 0
    /\ status = 0
    /\ call = NoCall
    /\ ret = NoRet

\* cell()
CellDefault ==
    /\ pc = "cell"
    /\ call' = [op |-> "cell()"]
    /\ ret' = Value(DefaultCell)
    /\ UNCHANGED <<input_sizes, option, should_exit, pc, vm, adapter, res,
                   solutions, status, ndebug, N>>

\* cell(row, col, prime)
CellChecked(row, col, p) ==
    /\ pc = "cell"
    /\ call' = [op |-> "cell(row, col, prime)", row |-> row, col |-> col,
                prime |-> p]
    /\ ret' = cell_checked(input_sizes, row, col, p)
    /\ UNCHANGED <<input_sizes, option, should_exit, pc, vm, adapter, res,
                   solutions, status, ndebug, N>>

\* cell(c, prime) on the cell constructed last
CellCopy(p) ==
    /\ pc = "cell"
    /\ call.op # "none" /\ ~ret.thrown
    /\ call' = [op |-> "cell(c, prime)", c |-> ret.val, prime |-> p]
    /\ ret' = Value(Reprime(ret.val, p))
    /\ UNCHANGED <<input_sizes, option, should_exit, pc, vm, adapter, res,
                   solutions, status, ndebug, N>>

NextCell ==
    \/ CellDefault
    \/ \E row \in (-1)..(MAX_ROW(input_sizes, pre) + 1),
          col \in (-1)..(MAX_COL(input_sizes, pre) + 1), p \in BOOLEAN :
          CellChecked(row, col, p)
    \/ \E p \in BOOLEAN : CellCopy(p)

SpecCell == InitCell /\ [][NextCell]_vars

(***************************************************************************)
(* SpecSweep: garden_of_eden (lines 705-768) followed row by row: the two  *)
(* sweeps of acc_rel(adapter, vm, bottom), one action for every iteration  *)
(* of the loop of line 647, the middle row and the last exists().  call    *)
(* holds the locals of the sweep that runs (begin, end, row and its res)   *)
(* and log, the operations on the accumulations so far: the row relations  *)
(* conjoined, with the variables each references, and the rows quantified, *)
(* with the variables selected; res is the res of garden_of_eden.          *)
(***************************************************************************)
\* tallest grid swept
MaxSweepRows == 4

SweepGrids ==
    {sizes \in (1..MaxSweepRows) \X (1..MaxCols) : sizes[1] * sizes[2] <= MaxCells}

\* lines 633-642
half_rows(sizes) == rows(sizes, post) \div 2
sweep_begin(sizes, bottom) ==
    IF bottom THEN MAX_ROW(sizes, post) ELSE MIN_ROW(post)
\* a sweep that goes one row beyond its half
sweep_end_beyond(sizes, bottom) ==
    IF bottom THEN MAX_ROW(sizes, post) - half_rows(sizes)
    ELSE MIN_ROW(post) + half_rows(sizes)

sweep_end(sizes, bottom) ==
    IF bottom THEN MAX_ROW(sizes, post) - half_rows(sizes) + 1
    ELSE MIN_ROW(post) + half_rows(sizes) - 1

\* the loop condition of line 647
sweep_continues(bottom, end, row) == IF bottom THEN end <= row ELSE row <= end

\* the name of an accumulation
SweepName(bottom) == IF bottom THEN "bottom" ELSE "top"

\* the relation of a row is conjoined into the accumulation acc
Conjoined(acc, row, row_rel) ==
    [op |-> "and", acc |-> acc, row |-> row, vars |-> Support(row_rel)]

\* the variables xs, those of the pre row quant_row, are quantified out of
\* the accumulation acc
Quantified(acc, quant_row, xs) ==
    [op |-> "exists", acc |-> acc, row |-> quant_row, vars |-> xs]

\* what one iteration of the sweep does to its accumulation (lines 652, 681)
SweepEvents(m, bottom, begin, row, row_rel) ==
    IF sweep_quantifies(bottom, begin, sweep_quant_row(bottom, row))
    THEN << Conjoined(SweepName(bottom), row, row_rel),
            Quantified(SweepName(bottom), sweep_quant_row(bottom, row),
                       PreVarsOfRow(m, sweep_quant_row(bottom, row))) >>
    ELSE << Conjoined(SweepName(bottom), row, row_rel) >>

InitSweep ==
    /\ input_sizes \in SweepGrids
    /\ option \in Symmetries
    /\ should_exit = FALSE
    /\ ndebug \in BOOLEAN
    /\ N = 0
    /\ pc = "top_half"
    /\ vm \in var_maps(input_sizes, option)
    /\ adapter = adapter_new(varcount(vm))
    /\ res = bot
    /\ solutions = 0
    /\ status = 0
    /\ call = [op |-> "garden_of_eden", bottom |-> FALSE, begin |-> 0, end |-> 0,
               row |-> 0, res |-> top, log |-> <<>>]
    /\ ret = bot

\* lines 720 and 730: acc_rel(adapter, vm, bottom) is entered (lines 633-645)
SweepEnter ==
    /\ pc \in {"top_half", "bottom_half"}
    /\ call' = [call EXCEPT !.op = "acc_rel",
                            !.bottom = (pc = "bottom_half"),
                            !.begin = sweep_begin(input_sizes, pc = "bottom_half"),
                            !.end = sweep_end(input_sizes, pc = "bottom_half"),
                            !.row = sweep_begin(input_sizes, pc = "bottom_half"),
                            !.res = top]
    /\ pc' = "acc_rel"
    /\ UNCHANGED <<input_sizes, option, should_exit, vm, adapter, res, solutions,
                   status, ret, ndebug, N>>

\* the rest of an iteration once acc_rel(adapter, vm, row) has returned
SweepRowDone(row_rel) ==
    /\ adapter' = row_rel.ad
    /\ call' = [call EXCEPT
                  !.res = acc_rel_sweep([ad |-> adapter, dd |-> call.res], row_rel,
                                        vm, call.bottom, call.begin, call.row).dd,
                  !.row = IF call.bottom THEN @ - 1 ELSE @ + 1,
                  !.log = @ \o SweepEvents(vm, call.bottom, call.begin, call.row,
                                           row_rel.dd)]
    /\ pc' = "acc_rel"

\* one iteration of the loop of acc_rel(adapter, vm, bottom) (lines 647-700);
\* a build with assertions aborts in the first construct_rel of the row
SweepRow ==
    /\ pc = "acc_rel"
    /\ sweep_continues(call.bottom, call.end, call.row)
    /\ IF ndebug \/ construct_rel_asserts(input_sizes, vm,
                        Cell(call.row, MAX_COL(input_sizes, post), pre))
       THEN SweepRowDone(acc_rel_row(adapter, input_sizes, vm, call.row))
       ELSE /\ pc' = "aborted"
            /\ UNCHANGED <<adapter, call>>
    /\ UNCHANGED <<input_sizes, option, should_exit, vm, res, solutions, status,
                   ret, ndebug, N>>

\* line 730 as an assignment: the bottom half replaces the top half
SweepReturnAssigned ==
    /\ pc = "acc_rel"
    /\ ~sweep_continues(call.bottom, call.end, call.row)
    /\ res' = call.res
    /\ call' = [call EXCEPT !.op = "garden_of_eden"]
    /\ pc' = IF call.bottom THEN "middle_row" ELSE "bottom_half"
    /\ UNCHANGED <<input_sizes, option, should_exit, vm, adapter, solutions,
                   status, ret, ndebug, N>>

\* line 702: the sweep returns; line 720 assigns the top half, line 730
\* conjoins the bottom half
SweepReturn ==
    /\ pc = "acc_rel"
    /\ ~sweep_continues(call.bottom, call.end, call.row)
    /\ res' = IF call.bottom THEN apply_and(res, call.res) ELSE call.res
    /\ call' = [call EXCEPT !.op = "garden_of_eden"]
    /\ pc' = IF call.bottom THEN "middle_row" ELSE "bottom_half"
    /\ UNCHANGED <<input_sizes, option, should_exit, vm, adapter, solutions,
                   status, ret, ndebug, N>>

\* the rest of lines 734-741 once acc_rel(adapter, vm, row) has returned
MiddleRowDone(row, row_rel) ==
    /\ adapter' = row_rel.ad
    /\ res' = apply_and(res, row_rel.dd)
    /\ call' = [call EXCEPT !.log = Append(@, Conjoined("middle", row, row_rel.dd))]
    /\ pc' = "exists"

\* lines 734-741: the middle row of a grid with an odd number of rows
MiddleRow ==
    /\ pc = "middle_row"
    /\ IF rows(input_sizes, post) % 2 = 1
       THEN IF ndebug \/ construct_rel_asserts(input_sizes, vm,
                           Cell(rows(input_sizes, post) \div 2 + 1,
                                MAX_COL(input_sizes, post), pre))
            THEN MiddleRowDone(rows(input_sizes, post) \div 2 + 1,
                               acc_rel_row(adapter, input_sizes, vm,
                                           rows(input_sizes, post) \div 2 + 1))
            ELSE /\ pc' = "aborted"
                 /\ UNCHANGED <<adapter, res, call>>
       ELSE /\ pc' = "exists"
            /\ UNCHANGED <<adapter, res, call>>
    /\ UNCHANGED <<input_sizes, option, should_exit, vm, solutions, status, ret,
                   ndebug, N>>

\* lines 751-754 and 767: the last exists(); ret keeps the relation
\* accumulated before it
LastExists ==
    /\ pc = "exists"
    /\ ret' = res
    /\ res' = exists(res, PreVars(vm))
    /\ pc' = "swept"
    /\ UNCHANGED <<input_sizes, option, should_exit, vm, adapter, solutions,
                   status, call, ndebug, N>>

NextSweep ==
    \/ SweepEnter
    \/ SweepRow
    \/ SweepReturn
    \/ MiddleRow
    \/ LastExists

SpecSweep == InitSweep /\ [][NextSweep]_vars

(***************************************************************************)
(* SpecRow: acc_rel(adapter, vm, row) (game-of-life.cpp 596-627), one      *)
(* action for every iteration of the loop over the columns.  call holds    *)
(* row, col and res of the call and log, the cells taken so far with the   *)
(* relation construct_rel returned for each.                               *)
(***************************************************************************)
InitRow ==
    /\ input_sizes \in SweepGrids
    /\ option \in Symmetries
    /\ should_exit = FALSE
    /\ ndebug \in BOOLEAN
    /\ N = 0
    /\ pc = "idle"
    /\ vm \in var_maps(input_sizes, option)
    /\ adapter = adapter_new(varcount(vm))
    /\ res = bot
    /\ solutions = 0
    /\ status = 0
    /\ call = NoCall
    /\ ret = bot

\* acc_rel(adapter, vm, row) is entered (line 598 and the head of line 610)
RowEnter(row) ==
    /\ pc = "idle"
    /\ call' = [op |-> "acc_rel", row |-> row, col |-> MAX_COL(input_sizes, post),
                res |-> top, log |-> <<>>]
    /\ pc' = "acc_rel_row"
    /\ UNCHANGED <<input_sizes, option, should_exit, vm, adapter, res, solutions,
                   status, ret, ndebug, N>>

\* the rest of an iteration once construct_rel has returned rel for the cell c
RowColDone(c, rel) ==
    /\ adapter' = rel.ad
    /\ call' = [call EXCEPT
                  !.res = acc_rel_col([ad |-> adapter, dd |-> call.res], rel).dd,
                  !.col = @ - 1,
                  !.log = Append(@, [col |-> call.col, c |-> c, rel |-> rel.dd])]
    /\ pc' = "acc_rel_row"

\* one iteration of the loop of lines 610-621; a build with assertions aborts
\* in construct_rel
RowCol ==
    /\ pc = "acc_rel_row"
    /\ MIN_COL(post) <= call.col
    /\ IF ndebug \/ construct_rel_asserts(input_sizes, vm,
                                          acc_rel_cell(call.row, call.col))
       THEN RowColDone(acc_rel_cell(call.row, call.col),
                       construct_rel(adapter, input_sizes, vm,
                                     acc_rel_cell(call.row, call.col)))
       ELSE /\ pc' = "aborted"
            /\ UNCHANGED <<adapter, call>>
    /\ UNCHANGED <<input_sizes, option, should_exit, vm, res, solutions, status,
                   ret, ndebug, N>>

\* line 626: return res
RowReturn ==
    /\ pc = "acc_rel_row"
    /\ call.col < MIN_COL(post)
    /\ ret' = call.res
    /\ pc' = "called"
    /\ UNCHANGED <<input_sizes, option, should_exit, vm, adapter, res, solutions,
                   status, call, ndebug, N>>

NextRow ==
    \/ \E row \in MIN_ROW(post)..MAX_ROW(input_sizes, post) : RowEnter(row)
    \/ RowCol
    \/ RowReturn

SpecRow == InitRow /\ [][NextRow]_vars

(***************************************************************************)
(* Properties of the builders, checked under SpecBuild.                    *)
(***************************************************************************)
\* the variables of the nine pre cells around c, c's own coordinate included
NbrVars(sizes, m, c) ==
    {VarOf(sizes, m, Cell(r, k, pre)) :
        r \in (c.row - 1)..(c.row + 1), k \in (c.col - 1)..(c.col + 1)}

\* a builder has returned to its caller
Returned(op) == pc = "called" /\ call.op = op

\* C1: for every interior cell c and every count k in 0..9, the diagram
\* construct_count(c, k) returns is satisfied by an assignment iff exactly k
\* of the nine pre variables of c's neighbourhood are true in it, whatever
\* the other variables are.
C1_ExactCount ==
    (Returned("construct_count") /\ call.alive <= 9) =>
        LET nb == NbrVars(input_sizes, vm, call.c)
        IN  \A a \in SUBSET (nb \cup Support(ret)) :
                Eval(ret, a) <=> (Cardinality(a \cap nb) = call.alive)

\* C2: for every interior cell c, the diagram construct_eq(c) returns is
\* satisfied by an assignment iff it gives c's pre variable and c's post
\* variable the same value, whatever the other variables are.
C2_EqIffSame ==
    Returned("construct_eq") =>
        LET x_pre  == VarOf(input_sizes, vm, Reprime(call.c, pre))
            x_post == VarOf(input_sizes, vm, Reprime(call.c, post))
        IN  \A a \in SUBSET ({x_pre, x_post} \cup Support(ret)) :
                Eval(ret, a) <=> ((x_pre \in a) <=> (x_post \in a))

\* C2 happens: construct_eq has returned for a cell of a mirrored map whose
\* two variables are not adjacent, and the diagram tests exactly those two
C2_Witness ==
    /\ Returned("construct_eq")
    /\ option = "mirror"
    /\ LET x_pre  == VarOf(input_sizes, vm, Reprime(call.c, pre))
           x_post == VarOf(input_sizes, vm, Reprime(call.c, post))
       IN  x_pre + 1 < x_post /\ Support(ret) = {x_pre, x_post}

\* C3: for every interior cell c, construct_rel(c) is satisfied by an
\* assignment iff c's post variable is true exactly when three of the nine
\* neighbourhood pre variables are true, or four are and c's pre variable is.
C3_LifeRule ==
    Returned("construct_rel") =>
        LET nb     == NbrVars(input_sizes, vm, call.c)
            x_pre  == VarOf(input_sizes, vm, Reprime(call.c, pre))
            x_post == VarOf(input_sizes, vm, Reprime(call.c, post))
        IN  \A a \in SUBSET (nb \cup {x_post} \cup Support(ret)) :
                LET sum == Cardinality(a \cap nb)
                IN  Eval(ret, a) <=>
                      ((x_post \in a) <=> (sum = 3 \/ (sum = 4 /\ x_pre \in a)))

\* C8: for every count k above the nine neighbourhood variables,
\* construct_count returns, and what it returns is the constant false.
C8_AboveNineIsFalse ==
    (call.op = "construct_count" /\ call.alive > 9
        /\ (ndebug \/ call.c.prime = post)) =>
        (pc = "called" /\ ret = bot)

\* C8 happens: construct_count has been called with the count 10
C8_Witness ==
    /\ Returned("construct_count")
    /\ call.alive = 10
    /\ ret = bot

(***************************************************************************)
(* Properties of the var_map, checked under SpecMap.                       *)
(***************************************************************************)
\* the var_map has been constructed
Constructed == pc \in {"idle", "called"}

\* the cells of the grid of primality p
GridCells(sizes, p) ==
    {Cell(r, c, p) : r \in MIN_ROW(p)..MAX_ROW(sizes, p),
                     c \in MIN_COL(p)..MAX_COL(sizes, p)}

\* C6: for every grid R x C and both symmetries, after the construction
\* varcount(pre) = rows(pre) * cols(pre) = (R+2) * (C+2), every pre cell has
\* an index, and no two pre cells share one.
C6_PreCount ==
    Constructed =>
        /\ vm.varcount[pre] = rows(input_sizes, pre) * cols(input_sizes, pre)
        /\ vm.varcount[pre] = (input_sizes[1] + 2) * (input_sizes[2] + 2)
        /\ \A c \in GridCells(input_sizes, pre) :
              ~var_from_cell(input_sizes, vm, c).thrown
        /\ Cardinality({VarOf(input_sizes, vm, c) : c \in GridCells(input_sizes, pre)})
              = Cardinality(GridCells(input_sizes, pre))

\* C6 happens: a mirrored map of a grid with an even number of columns
C6_Witness ==
    /\ Constructed
    /\ option = "mirror"
    /\ input_sizes = <<3, 2>>
    /\ vm.varcount[pre] = 20

\* C7: for every grid R x C, the number of post variables under symmetry
\* mirror is at most the number under symmetry none, which is R * C, and is
\* R * ceil(C / 2).
C7_MirrorPostCount ==
    Constructed =>
        LET R == input_sizes[1]
            C == input_sizes[2]
        IN  /\ option = "none" => vm.varcount[post] = R * C
            /\ option = "mirror" =>
                  /\ vm.varcount[post] <= R * C
                  /\ vm.varcount[post] = R * ((C + 1) \div 2)

\* C7 happens: a mirrored map of a grid of three columns, whose middle
\* column has no mirror
C7_Witness ==
    /\ Constructed
    /\ option = "mirror"
    /\ input_sizes = <<2, 3>>
    /\ vm.varcount[post] = 4

\* the indices the constructor handed to insert() for exactly the cell c
AssignedTo(m, c) ==
    {m.assigned[i].val : i \in {j \in 1..Len(m.assigned) : m.assigned[j].key = c}}

\* C9: var_from_cell(c) throws out_of_range for every cell outside the bounds
\* of its own primality or absent from the map, and returns the index
\* assigned at construction for every cell in range; it never returns an
\* index for an invalid cell.
C9_VarFromCell ==
    (pc = "called" /\ call.op = "var_from_cell") =>
        IF out_of_range(input_sizes, call.c) \/ AssignedTo(vm, call.c) = {}
        THEN ret = Throw(OutOfRange)
        ELSE ~ret.thrown /\ AssignedTo(vm, call.c) = {ret.val}

\* C9 happens: a post cell of row 0, inside the pre grid and outside the post
\* grid, is looked up and the call throws
C9_Witness ==
    /\ pc = "called"
    /\ call.op = "var_from_cell"
    /\ call.c = Cell(0, 1, post)
    /\ ret.thrown

\* cell_from_var(x, c) has been called with an index of the map
CandidateCalled ==
    /\ pc = "called"
    /\ call.op = "cell_from_var_cand"
    /\ 0 <= call.x
    /\ call.x < varcount(vm)

\* C13 as stated: for every index x in 0..varcount()-1 and every candidate
\* cell c, cell_from_var(x, c) does not fail; it returns c when c maps to x
\* and a cell that maps to x otherwise.
C13_AlwaysReturns ==
    CandidateCalled =>
        /\ ~ret.thrown
        /\ IF call.x \in AssignedTo(vm, call.c)
           THEN ret.val = call.c
           ELSE call.x \in AssignedTo(vm, ret.val)

\* C13: for every index x in 0..varcount()-1 and every candidate cell c
\* that is within the bounds of its phase and in the map, cell_from_var(x, c)
\* returns c when c maps to x and a cell that maps to x otherwise; for every
\* other candidate it throws out_of_range.
C13_CellFromVarCand ==
    CandidateCalled =>
        IF out_of_range(input_sizes, call.c) \/ AssignedTo(vm, call.c) = {}
        THEN ret = Throw(OutOfRange)
        ELSE /\ ~ret.thrown
             /\ IF call.x \in AssignedTo(vm, call.c)
                THEN ret.val = call.c
                ELSE call.x \in AssignedTo(vm, ret.val)

\* C13 happens: under symmetry mirror the candidate is the right one of two
\* post cells that share the index x, and it is handed back
C13_Witness ==
    /\ CandidateCalled
    /\ option = "mirror"
    /\ input_sizes = <<1, 2>>
    /\ call.c = Cell(1, 2, post)
    /\ call.x \in AssignedTo(vm, Cell(1, 1, post))
    /\ ret = Value(call.c)

(***************************************************************************)
(* Properties of run_gameoflife, checked under Spec.                       *)
(***************************************************************************)
\* the variables of the cells of primality p, read from the map
VarsOf(sizes, m, p) == {VarOf(sizes, m, c) : c \in GridCells(sizes, p)}

\* the rule of the game for the interior cell at (r, k) under the
\* assignment a
LifeRule(sizes, m, r, k, a) ==
    LET sum == Cardinality(a \cap NbrVars(sizes, m, Cell(r, k, post)))
    IN  (VarOf(sizes, m, Cell(r, k, post)) \in a)
          <=> (sum = 3 \/ (sum = 4 /\ VarOf(sizes, m, Cell(r, k, pre)) \in a))

\* the post assignment p has a predecessor
HasPredecessor(sizes, m, p) ==
    \E q \in SUBSET VarsOf(sizes, m, pre) :
        \A r \in 1..sizes[1], k \in 1..sizes[2] : LifeRule(sizes, m, r, k, p \cup q)

\* run_gameoflife has reported a number
Reported == pc \in {"return", "returned"} /\ ~should_exit

Swept == pc \in {"satcount", "return", "returned"} /\ ~should_exit

\* C5: garden_of_eden yields the same relation, before and after its last
\* quantification, whether the top sweep or the bottom sweep is accumulated
\* first.
C5_SweepOrder ==
    Swept =>
        LET fresh    == adapter_new(varcount(vm))
            as_coded == garden_of_eden_from(fresh, input_sizes, vm, FALSE)
            swapped  == garden_of_eden_from(fresh, input_sizes, vm, TRUE)
        IN  /\ res = as_coded.dd
            /\ res = swapped.dd
            /\ as_coded.acc = swapped.acc

\* C5 happens: garden_of_eden has returned for a grid of two rows, where
\* each sweep accumulates a row and quantifies another
C5_Witness ==
    /\ Swept
    /\ input_sizes = <<2, 1>>
    /\ res = top

\* the variables of the pre cells of the border around the interior grid
BorderVars(sizes, m) ==
    {VarOf(sizes, m, c) :
        c \in {d \in GridCells(sizes, pre) : out_of_range(sizes, Reprime(d, post))}}

\* garden_of_eden has returned for the grid of one interior cell
SweptOneCell == Swept /\ input_sizes = <<1, 1>>

\* C11 as stated: for the 1x1 interior grid the relation assembled holds of
\* no assignment with a live border cell, and of an assignment with a dead
\* border iff the post cell is dead, which is the rule of the cell against
\* eight dead neighbours.
C11_DeadBorder ==
    SweptOneCell =>
        \A a \in SUBSET (0..(varcount(vm) - 1)) :
            Eval(ret, a) <=>
                /\ a \cap BorderVars(input_sizes, vm) = {}
                /\ VarOf(input_sizes, vm, Cell(1, 1, post)) \notin a

\* C11: for the 1x1 interior grid the relation assembled by the pipeline is
\* the relation construct_rel builds for its one cell over the nine pre
\* variables of the 3x3 grid; the eight border cells are free variables it
\* tests, and assignments with a live border cell satisfy it.
C11_FreeBorder ==
    SweptOneCell =>
        /\ ret = construct_rel(adapter_new(varcount(vm)), input_sizes, vm,
                               Cell(1, 1, pre)).dd
        /\ Support(ret) \cap BorderVars(input_sizes, vm) # {}
        /\ \E a \in SUBSET (0..(varcount(vm) - 1)) :
              Eval(ret, a) /\ a \cap BorderVars(input_sizes, vm) # {}

\* C11 happens: the run of the 1x1 grid has accumulated its relation over
\* eight border variables
C11_Witness ==
    /\ SweptOneCell
    /\ Cardinality(BorderVars(input_sizes, vm)) = 8
    /\ ret # top

\* the interior grids from 1x1 up to 2x2
SmallGrids == (1..2) \X (1..2)

\* C12: for every interior grid from 1x1 up to 2x2 under symmetry none, the
\* number of unreachable states the pipeline computes is 0, and
\* run_gameoflife returns the exit status 0.
C12_SmallGridsZero ==
    (~should_exit /\ option = "none" /\ input_sizes \in SmallGrids) =>
        /\ pc \in {"return", "returned"} => solutions = 0
        /\ pc = "returned" => status = 0

\* C12 happens: the run of the 2x2 grid under symmetry none has returned
C12_Witness ==
    /\ pc = "returned"
    /\ ~should_exit
    /\ option = "none"
    /\ input_sizes = <<2, 2>>
    /\ res = top
    /\ status = 0

\* the option arguments parse_option recognises
RecognisedArgs ==
    { <<"n", "o", "n", "e">>, <<"N", "o", "n", "e">>,
      <<"m", "i", "r", "r", "o", "r">>, <<"M", "I", "R", "R", "O", "R">> }

\* C10: when the symmetry option is not recognised, should_exit is set and
\* run_gameoflife returns -1 with no var_map built, no adapter initialised
\* and no diagram constructed.
C10_UnrecognisedOption ==
    (call.op = "parse_input" /\ call.arg \in OptionArgs \ RecognisedArgs) =>
        /\ should_exit
        /\ pc \in {"default_sizes", "check_exit", "returned"}
        /\ pc = "returned" => status = -1
        /\ vm = NoMap
        /\ adapter = NoAdapter
        /\ res = bot

\* C10 happens: the run of an unrecognised option has returned
C10_Witness ==
    /\ pc = "returned"
    /\ call.op = "parse_input"
    /\ call.arg = <<"n", "o", "n", "e", "x">>
    /\ status = -1


(***************************************************************************)
(* Properties of Tic-Tac-Toe, checked under SpecTTT.                       *)
(***************************************************************************)
\* the value of the diagram f under the assignment that makes exactly the
\* variables of the set a true
RECURSIVE EvalRef(_, _, _)
EvalRef(m, f, a) ==
    IF IsTerminal(f) THEN f = leaf_true
    ELSE IF NodeOf(m, f)[1] \in a THEN EvalRef(m, NodeOf(m, f)[3], a)
    ELSE EvalRef(m, NodeOf(m, f)[2], a)

\* the variables a diagram tests
RECURSIVE SupportRef(_, _)
SupportRef(m, f) ==
    IF IsTerminal(f) THEN {}
    ELSE {NodeOf(m, f)[1]} \cup SupportRef(m, NodeOf(m, f)[2])
                           \cup SupportRef(m, NodeOf(m, f)[3])

\* the diagram c is the function "exactly j of the variables y..63 are
\* true" at its root: the constant false when no assignment has j of them
\* true, the constant true below the last variable, a node of y otherwise
RootCounts(m, c, y, j) ==
    IF j < 0 \/ j > Labels - y THEN c = leaf_false
    ELSE IF y = Labels THEN c = leaf_true
    ELSE ~IsTerminal(c) /\ NodeOf(m, c)[1] = y

\* the children of the nodes among the pairs <<diagram, count>> of level y,
\* with the counts they have to accept
CountedBelow(m, pairs, y) ==
    UNION {{<<NodeOf(m, p[1])[2], p[2]>>, <<NodeOf(m, p[1])[3], p[2] - 1>>} :
             p \in {q \in pairs : ~IsTerminal(q[1])}}

\* every pair <<diagram, count j>> is the function "exactly j of the
\* variables y..63 are true".  The diagrams are reduced and ordered, so this
\* holds iff it holds at the roots and of the children, level by level.
RECURSIVE ExactlyFrom(_, _, _)
ExactlyFrom(m, pairs, y) ==
    /\ \A p \in pairs : RootCounts(m, p[1], y, p[2])
    /\ y = Labels \/ ExactlyFrom(m, CountedBelow(m, pairs, y), y + 1)

\* construct_init has returned
InitReturned == pc = "called" /\ call.op = "construct_init"

\* C14: for every N in 0..64 the diagram construct_init returns is satisfied
\* by an assignment of the 64 variables iff exactly N of them are true; for
\* N above 64 it is the constant false.
C14_ExactlyN ==
    InitReturned =>
        IF N <= Labels THEN ExactlyFrom(adapter, {<<ret, N>>}, 0)
        ELSE ret = leaf_false

\* C15: for every line of four distinct variables, the diagram
\* construct_is_not_winning returns is satisfied by an assignment iff the
\* four variables of the line are not all true and not all false, whatever
\* the other variables are.
C15_NotAllEqual ==
    (pc = "called" /\ call.op = "construct_is_not_winning") =>
        LET on_line == {call.line[i] : i \in 1..4}
        IN  \A a \in SUBSET (on_line \cup SupportRef(adapter, ret)) :
                EvalRef(adapter, ret, a)
                    <=> (a \cap on_line # {} /\ a \cap on_line # on_line)

\* C15 happens: the diagram of a diagonal of the cube is built, and of a
\* line whose variables do not ascend
C15_Witness ==
    /\ pc = "called"
    /\ call.op = "construct_is_not_winning"
    /\ call.line \in {<<0, 21, 42, 63>>, <<3, 0, 4, 1>>}
    /\ SupportRef(adapter, ret) = {call.line[i] : i \in 1..4}

\* C16: for every N in 0..63 construct_init builds (64 - N + 1)(N + 1) - 1
\* nodes, one for every slot it rebuilds inside the window of a level.
C16_NodesBuilt ==
    (InitReturned /\ N <= 63) =>
        call.built = (64 - N + 1) * (N + 1) - 1

\* C16 happens: construct_init has returned for the N of line 142, after
\* building 944 nodes
C16_Witness ==
    /\ InitReturned
    /\ N = 20
    /\ call.built = 944


(***************************************************************************)
(* Properties of the sizes of the BuDDy adapter, checked under SpecSizes.  *)
(***************************************************************************)
\* C17: for every memory budget, with nodes = table_size(memory_bytes), the
\* cache size lies in [nodes/64, nodes/32], is the size the memory left by
\* the node table allows wherever that lies in the interval, and the node
\* table and the six caches fit the budget.
C17_CachesFit ==
    pc = "bdd_init" =>
        /\ call.nodes = table_size(call.memory_bytes)
        /\ min_cache(call.nodes) <= ret
        /\ ret <= max_cache(call.nodes)
        /\ ret = std_max(min_cache(call.nodes),
                      std_min(max_cache(call.nodes),
                           cache_memory(call.memory_bytes, call.nodes)))
        /\ sizeof_node * call.nodes + sizeof_cache * caches * ret
              <= call.memory_bytes


(***************************************************************************)
(* Properties of the sweeps, checked under SpecSweep.                      *)
(***************************************************************************)
\* the interior rows whose relations reference the pre row q
ReferencingRows(sizes, q) ==
    {p \in MIN_ROW(post)..MAX_ROW(sizes, post) : q - 1 <= p /\ p <= q + 1}

\* the operations of the log that conjoin, and that quantify variables
Conjoins == {i \in 1..Len(call.log) : call.log[i].op = "and"}
Quantifies ==
    {i \in 1..Len(call.log) : call.log[i].op = "exists" /\ call.log[i].vars # {}}

\* C18: whenever a sweep quantifies the pre variables of row q out of its
\* accumulation, the relation of every interior row among q-1, q, q+1 has
\* been conjoined into that accumulation before, and no relation conjoined
\* later, in the other sweep or the middle row, references a variable
\* quantified; indeed every relation that references one, wherever it is
\* conjoined, is one of those conjoined before into the same accumulation.
C18_QuantifiedAfterUse ==
    \A i \in Quantifies :
        /\ \A p \in ReferencingRows(input_sizes, call.log[i].row) :
              \E j \in Conjoins : /\ j < i
                                  /\ call.log[j].row = p
                                  /\ call.log[j].acc = call.log[i].acc
        /\ \A j \in Conjoins :
              j > i => call.log[j].vars \cap call.log[i].vars = {}
        /\ \A j \in Conjoins :
              call.log[j].vars \cap call.log[i].vars # {} =>
                  j < i /\ call.log[j].acc = call.log[i].acc

\* C18 happens: garden_of_eden has returned after the bottom sweep
\* quantified the last interior pre row, which the relations of the two rows
\* conjoined before it reference
C18_Witness ==
    /\ pc = "swept"
    /\ \E i \in Quantifies :
          /\ call.log[i].row = MAX_ROW(input_sizes, post)
          /\ Cardinality({j \in Conjoins :
                            /\ j < i
                            /\ call.log[j].vars \cap call.log[i].vars # {}}) = 2

\* the conjunction of the relations construct_rel builds for the cells
RECURSIVE ConjoinCells(_, _, _, _)
ConjoinCells(sizes, m, cells, acc) ==
    IF cells = {} THEN acc
    ELSE ConjoinCells(sizes, m, cells \ {CHOOSE c \in cells : TRUE},
           apply_and(acc,
                     construct_rel(adapter_new(varcount(m)), sizes, m,
                                   CHOOSE c \in cells : TRUE).dd))

\* the relations of all interior cells conjoined, nothing quantified
AllConjoined(sizes, m) ==
    ConjoinCells(sizes, m,
                 {Cell(r, c, pre) : r \in MIN_ROW(post)..MAX_ROW(sizes, post),
                                    c \in MIN_COL(post)..MAX_COL(sizes, post)},
                 top)

\* the variables the sweeps have quantified
QuantifiedEarly == UNION {call.log[i].vars : i \in Quantifies}

\* C19: for every grid and symmetry the relation garden_of_eden returns is
\* the conjunction of the relations of all interior cells with every pre
\* variable quantified afterwards, and no pre variable is in its support;
\* likewise the relation accumulated before the last exists() is that
\* conjunction with the variables of the rows the sweeps quantified
\* quantified afterwards.
C19_QuantifiedLate ==
    pc = "swept" =>
        /\ res = exists(AllConjoined(input_sizes, vm), PreVars(vm))
        /\ Support(res) \cap PreVars(vm) = {}
        /\ ret = exists(AllConjoined(input_sizes, vm), QuantifiedEarly)

\* C19 happens: garden_of_eden has returned for a grid whose sweeps
\* quantified variables the relation accumulated would otherwise depend on
C19_Witness ==
    /\ pc = "swept"
    /\ QuantifiedEarly # {}
    /\ Support(AllConjoined(input_sizes, vm)) \cap QuantifiedEarly # {}
    /\ Support(ret) \cap PreVars(vm) # {}

\* the operations of the log on the accumulation acc, in order, as pairs of
\* the operation and its row
SweepLog(acc) ==
    [i \in 1..Len(SelectSeq(call.log, LAMBDA e : e.acc = acc)) |->
        << SelectSeq(call.log, LAMBDA e : e.acc = acc)[i].op,
           SelectSeq(call.log, LAMBDA e : e.acc = acc)[i].row >>]

\* the first n operations on the accumulation acc, or all if there are fewer
FirstOf(acc, n) ==
    SubSeq(SweepLog(acc), 1, IF Len(SweepLog(acc)) < n THEN Len(SweepLog(acc)) ELSE n)

\* the rows the sweep acc quantifies
RowsQuantified(acc) ==
    {call.log[i].row : i \in {j \in Quantifies : call.log[j].acc = acc}}

\* both sweeps have returned, for a grid of at least four rows
BothSwept ==
    /\ pc \in {"middle_row", "exists", "swept"}
    /\ rows(input_sizes, post) >= 4

\* C20 as stated: each sweep quantifies its border pre row right after its
\* first row relation and its outermost interior pre row right after its
\* second row relation.
C20_SameSchedule ==
    BothSwept =>
        /\ FirstOf("top", 4)
             = << <<"and", MIN_ROW(post)>>, <<"exists", MIN_ROW(pre)>>,
                  <<"and", MIN_ROW(post) + 1>>, <<"exists", MIN_ROW(post)>> >>
        /\ FirstOf("bottom", 4)
             = << <<"and", MAX_ROW(input_sizes, post)>>,
                  <<"exists", MAX_ROW(input_sizes, pre)>>,
                  <<"and", MAX_ROW(input_sizes, post) - 1>>,
                  <<"exists", MAX_ROW(input_sizes, post)>> >>

\* C20: the sweeps do not follow the same schedule.  Both quantify their
\* border pre row (row 0, row R+1) right after their first row relation; the
\* bottom sweep quantifies pre row R right after its second row relation and
\* nothing else, the top sweep quantifies no other row than row 0, pre row 1
\* included (interior height R >= 4).
C20_BottomOnly ==
    BothSwept =>
        /\ FirstOf("top", 3)
             = << <<"and", MIN_ROW(post)>>, <<"exists", MIN_ROW(pre)>>,
                  <<"and", MIN_ROW(post) + 1>> >>
        /\ RowsQuantified("top") = {MIN_ROW(pre)}
        /\ FirstOf("bottom", 4)
             = << <<"and", MAX_ROW(input_sizes, post)>>,
                  <<"exists", MAX_ROW(input_sizes, pre)>>,
                  <<"and", MAX_ROW(input_sizes, post) - 1>>,
                  <<"exists", MAX_ROW(input_sizes, post)>> >>
        /\ RowsQuantified("bottom")
             = {MAX_ROW(input_sizes, pre), MAX_ROW(input_sizes, post)}

\* C20 happens: both sweeps of a grid of four rows have returned, each after
\* two row relations, and garden_of_eden with them
C20_Witness ==
    /\ BothSwept
    /\ pc = "swept"
    /\ Len(SweepLog("top")) = 3
    /\ Len(SweepLog("bottom")) = 4


(***************************************************************************)
(* Properties of the window of construct_count, checked under SpecCount.   *)
(***************************************************************************)
\* the neighbourhood variables handled so far
Processed == Len(neighbourhood(call.c)) - call.remaining_cells

\* the slots still reachable from the root: slot i stands for i live cells
\* among the variables above, of which remaining_cells are left, and the
\* handled ones below supply the other alive - i
ReachableSlots ==
    {i \in 0..call.alive :
        /\ Max(0, call.alive - Processed) <= i
        /\ i <= call.remaining_cells}

\* C21: after every iteration of construct_count for a neighbourhood
\* variable the window [alive_min, alive_max] contains every slot still
\* reachable from the root.
C21_WindowCoversReachable ==
    (pc = "construct_count" /\ call.stepped = "neighbour") =>
        \A i \in ReachableSlots : call.alive_min <= i /\ i <= call.alive_max


(***************************************************************************)
(* Properties of the cells and the antecedents of the relation.            *)
(***************************************************************************)
\* the cells acc_rel hands to construct_rel, and through it to
\* construct_count and neighbourhood(), in a run on the grid sizes
PipelineCells(sizes) ==
    {acc_rel_cell(r, c) : r \in MIN_ROW(post)..MAX_ROW(sizes, post),
                          c \in MIN_COL(post)..MAX_COL(sizes, post)}

\* the pipeline is about to call garden_of_eden
BeforeSweeps == pc = "garden_of_eden" /\ ~should_exit

\* C22: in every run of the pipeline each call of cell::neighbourhood() is
\* made on a post cell and builds nine cells within the bounds of their
\* phase, so that no run ends in a failed assertion.
C22_NeighbourhoodOnPost ==
    /\ pc # "aborted"
    /\ BeforeSweeps =>
          \A c \in PipelineCells(input_sizes) : neighbourhood_asserts(input_sizes, c)

\* construct_rel has returned
RelReturned == pc = "called" /\ call.op = "construct_rel"

\* the diagram construct_count returns for the cell of the call
CountOf(alive) ==
    construct_count(adapter_new(varcount(vm)), vm, call.c, alive).dd

\* the three antecedents of construct_rel (lines 561, 562, 580-581)
Alive3 == CountOf(3)
Alive4 == CountOf(4)
AliveOther == bdd_not(apply_or(CountOf(3), CountOf(4)))

\* C23: for every interior cell the three antecedents of construct_rel are
\* mutually exclusive and exhaustive: under every assignment exactly one of
\* them is true.
C23_OneAntecedent ==
    RelReturned =>
        /\ apply_and(Alive3, Alive4) = bot
        /\ apply_and(Alive3, AliveOther) = bot
        /\ apply_and(Alive4, AliveOther) = bot
        /\ apply_or(apply_or(Alive3, Alive4), AliveOther) = top

\* construct_rel has returned for a cell that can have three and four cells
\* alive around it
C23_Witness == RelReturned /\ Alive3 # bot /\ Alive4 # bot /\ AliveOther # bot


(***************************************************************************)
(* Properties of the build operations, checked under SpecBuilder.          *)
(***************************************************************************)
\* build() has just returned
BuildReturned == pc = "builder" /\ call.op = "build"

CellConstructed == pc = "cell" /\ call.op # "none" /\ ~ret.thrown

\* C25 as stated: every cell constructed, through any of the constructors,
\* is within the bounds of its phase.
C25_AllInBounds ==
    CellConstructed => ~out_of_range(input_sizes, ret.val)

\* C25, amended: a cell constructed through cell(row, col, prime) is within
\* the bounds of its phase, and the constructor throws for every coordinate
\* that is not; cell(c, prime) keeps the coordinate of c whatever the bounds
\* of the new phase are.
C25_CheckedInBounds ==
    /\ (pc = "cell" /\ call.op = "cell(row, col, prime)") =>
          /\ ret.thrown <=>
                out_of_range(input_sizes, Cell(call.row, call.col, call.prime))
          /\ ~ret.thrown =>
                /\ ret.val = Cell(call.row, call.col, call.prime)
                /\ MIN_ROW(call.prime) <= ret.val.row
                /\ ret.val.row <= MAX_ROW(input_sizes, call.prime)
                /\ MIN_COL(call.prime) <= ret.val.col
                /\ ret.val.col <= MAX_COL(input_sizes, call.prime)
    /\ (pc = "cell" /\ call.op = "cell(c, prime)") =>
          /\ ~ret.thrown
          /\ ret.val.row = call.c.row /\ ret.val.col = call.c.col
          /\ ret.val.prime = call.prime

\* cell(c, prime::post) of a cell of the border that cell(row, col, prime::pre)
\* has constructed: the copy is out of range
C25_Witness ==
    /\ CellConstructed
    /\ call.op = "cell(c, prime)"
    /\ ~out_of_range(input_sizes, call.c)
    /\ out_of_range(input_sizes, ret.val)


\* the rows whose relation is conjoined into the accumulation acc
RowsConjoined(acc) ==
    {call.log[i].row : i \in {j \in Conjoins : call.log[j].acc = acc}}

\* every row relation of garden_of_eden has been conjoined
AllSwept == pc \in {"exists", "swept"}

\* C26: for every interior height R the rows of the top sweep, the rows of
\* the bottom sweep and the middle row, rows(post) / 2 + 1 when R is odd,
\* partition 1..R: the relation of every interior row is conjoined exactly
\* once, none is skipped and none conjoined twice.
C26_RowsPartition ==
    AllSwept =>
        /\ \A r \in MIN_ROW(post)..MAX_ROW(input_sizes, post) :
              Cardinality({i \in Conjoins : call.log[i].row = r}) = 1
        /\ \A i \in Conjoins :
              /\ MIN_ROW(post) <= call.log[i].row
              /\ call.log[i].row <= MAX_ROW(input_sizes, post)
        /\ RowsConjoined("top") \cap RowsConjoined("bottom") = {}
        /\ RowsConjoined("middle")
             = IF rows(input_sizes, post) % 2 = 1
               THEN {rows(input_sizes, post) \div 2 + 1} ELSE {}
        /\ RowsConjoined("middle") \cap RowsConjoined("top") = {}
        /\ RowsConjoined("middle") \cap RowsConjoined("bottom") = {}

\* garden_of_eden has returned for a grid with a row for each sweep and a
\* middle row
C26_Witness ==
    /\ pc = "swept"
    /\ RowsConjoined("top") # {}
    /\ RowsConjoined("bottom") # {}
    /\ RowsConjoined("middle") # {}


(***************************************************************************)
(* Properties of the order and the sharing of the indices, checked under   *)
(* SpecMap.                                                                *)
(***************************************************************************)
\* the constructor of var_map has returned and no query is under way
MapReady == pc = "idle"

\* a comes before b in row-major order
RowMajorBefore(a, b) == a.row < b.row \/ (a.row = b.row /\ a.col < b.col)

\* C27: under symmetry none the pre cells have strictly increasing indices
\* in row-major order and the post index of every interior cell is its pre
\* index plus one; under both symmetries the pre index of every interior
\* cell is smaller than its post index, which is the assertion of
\* construct_eq.
C27_PreBeforePost ==
    MapReady =>
        /\ option = "none" =>
              /\ \A a \in GridCells(input_sizes, pre), b \in GridCells(input_sizes, pre) :
                    RowMajorBefore(a, b) =>
                        VarOf(input_sizes, vm, a) < VarOf(input_sizes, vm, b)
              /\ \A c \in GridCells(input_sizes, post) :
                    VarOf(input_sizes, vm, c)
                        = VarOf(input_sizes, vm, Reprime(c, pre)) + 1
        /\ \A c \in InteriorCells(input_sizes) :
              /\ construct_eq_asserts(input_sizes, vm, c)
              /\ VarOf(input_sizes, vm, Reprime(c, pre))
                    < VarOf(input_sizes, vm, Reprime(c, post))

\* a map without symmetry of a grid of several rows and columns, and a
\* mirrored map in which a post index is two above a pre index
C27_Witness ==
    /\ MapReady
    /\ input_sizes = <<2, 3>>
    /\ \/ /\ option = "none"
          /\ VarOf(input_sizes, vm, Cell(2, 3, post))
                = VarOf(input_sizes, vm, Cell(2, 3, pre)) + 1
       \/ /\ option = "mirror"
          /\ VarOf(input_sizes, vm, Cell(1, 1, post))
                = VarOf(input_sizes, vm, Cell(1, 1, pre)) + 2

\* the column mirror of the interior cell c
MirrorOf(sizes, c) == Cell(c.row, MAX_COL(sizes, post) + 1 - c.col, c.prime)

\* C28: under symmetry mirror every interior post cell is in the map, two
\* distinct post cells share an index exactly when they are in the same row
\* and are column mirrors of each other, (r, c) and (r, C + 1 - c), and a
\* cell and its mirror have different pre indices.
C28_MirrorsShare ==
    (MapReady /\ option = "mirror") =>
        /\ \A c \in GridCells(input_sizes, post) :
              ~var_from_cell(input_sizes, vm, c).thrown
        /\ \A a \in GridCells(input_sizes, post), b \in GridCells(input_sizes, post) :
              a # b =>
                 ((VarOf(input_sizes, vm, a) = VarOf(input_sizes, vm, b))
                    <=> b = MirrorOf(input_sizes, a))
        /\ \A c \in GridCells(input_sizes, post) :
              MirrorOf(input_sizes, c) # c =>
                  VarOf(input_sizes, vm, Reprime(c, pre))
                      # VarOf(input_sizes, vm, Reprime(MirrorOf(input_sizes, c), pre))

\* a mirrored map of a grid of three columns: the outer columns share their
\* post indices, the middle column has its own
C28_Witness ==
    /\ MapReady
    /\ option = "mirror"
    /\ input_sizes = <<2, 3>>
    /\ VarOf(input_sizes, vm, Cell(2, 1, post)) = VarOf(input_sizes, vm, Cell(2, 3, post))
    /\ VarOf(input_sizes, vm, Cell(2, 2, post)) # VarOf(input_sizes, vm, Cell(2, 1, post))

\* cell_from_var(x) has been called with an index of the map
InverseCalled ==
    /\ pc = "called"
    /\ call.op = "cell_from_var"
    /\ 0 <= call.x
    /\ call.x < varcount(vm)

\* C30: under both symmetries the indices assigned are exactly
\* 0..varcount()-1, and for every x of that range cell_from_var(x) is a cell
\* in range with var_from_cell(cell_from_var(x)) = x, of phase pre for the
\* indices of pre cells and of phase post for the indices of post cells.
C30_RightInverse ==
    /\ MapReady =>
          VarsOf(input_sizes, vm, pre) \cup VarsOf(input_sizes, vm, post)
              = 0..(varcount(vm) - 1)
    /\ InverseCalled =>
          /\ ~ret.thrown
          /\ ~out_of_range(input_sizes, ret.val)
          /\ var_from_cell(input_sizes, vm, ret.val) = Value(call.x)
          /\ call.x \in VarsOf(input_sizes, vm, pre) => ret.val.prime = pre
          /\ call.x \in VarsOf(input_sizes, vm, post) => ret.val.prime = post

\* cell_from_var has returned the right one of two mirrored post cells that
\* share the index
C30_Witness ==
    /\ InverseCalled
    /\ option = "mirror"
    /\ ~ret.thrown
    /\ ret.val.prime = post
    /\ ret.val.col > MirrorOf(input_sizes, ret.val).col


(***************************************************************************)
(* Properties of acc_rel(adapter, vm, row), checked under SpecRow.         *)
(***************************************************************************)
\* acc_rel(adapter, vm, row) has returned
RowDone == pc = "called" /\ call.op = "acc_rel"

\* the index of the variable of primality p of the i-th cell taken
IndexTaken(i, p) == VarOf(input_sizes, vm, Reprime(call.log[i].c, p))

\* the cells are taken in order of strictly decreasing index of their
\* variable of primality p
DecreasingIndex(p) ==
    \A i \in 1..Len(call.log), j \in 1..Len(call.log) :
        i < j => IndexTaken(i, p) > IndexTaken(j, p)

\* the conjunction of the relations of the first n cells taken
RECURSIVE ConjoinedUpTo(_)
ConjoinedUpTo(n) ==
    IF n = 0 THEN top ELSE apply_and(ConjoinedUpTo(n - 1), call.log[n].rel)

\* exactly one relation for every interior column, all of the row, conjoined
\* into the one accumulation returned
OnePerColumn ==
    /\ Len(call.log) = cols(input_sizes, post)
    /\ \A col \in MIN_COL(post)..MAX_COL(input_sizes, post) :
          Cardinality({i \in 1..Len(call.log) :
                          /\ call.log[i].col = col
                          /\ call.log[i].c.row = call.row
                          /\ call.log[i].c.col = col}) = 1
    /\ ret = ConjoinedUpTo(Len(call.log))

\* C29 as stated: exactly one cell relation for every interior column is
\* conjoined into a single running accumulation, and the cells are taken in
\* order of strictly decreasing variable index, of their pre or of their
\* post variable, under both symmetries.
C29_DecreasingIndex ==
    RowDone => OnePerColumn /\ (DecreasingIndex(pre) \/ DecreasingIndex(post))

\* C29, amended: exactly one cell relation for every interior column is
\* conjoined into a single running accumulation, and the cells are taken in
\* order of strictly decreasing column.  Under symmetry none that is the
\* order of strictly decreasing variable index; under symmetry mirror it is
\* not: the column mirrors share their post index, and from three columns on
\* the pre index of an inner column is above that of the outer column taken
\* before it.
C29_DecreasingColumn ==
    RowDone =>
        /\ OnePerColumn
        /\ \A i \in 1..Len(call.log), j \in 1..Len(call.log) :
              i < j => call.log[i].col > call.log[j].col
        /\ option = "none" => DecreasingIndex(pre) /\ DecreasingIndex(post)
        /\ (option = "mirror" /\ cols(input_sizes, post) >= 2) =>
              /\ IndexTaken(1, post) = IndexTaken(Len(call.log), post)
              /\ ~DecreasingIndex(post)
        /\ (option = "mirror" /\ cols(input_sizes, post) >= 3) =>
              /\ IndexTaken(1, pre) < IndexTaken(2, pre)
              /\ ~DecreasingIndex(pre)

\* acc_rel has returned the relation of a row of three columns of a mirrored
\* map
C29_Witness ==
    /\ RowDone
    /\ option = "mirror"
    /\ Len(call.log) = 3
    /\ IndexTaken(1, pre) < IndexTaken(2, pre)
    /\ ret # call.log[3].rel

====
